---- MODULE Spec2Model ----
(***************************************************************************)
(* MarketPulsePro: the price and news services (read-through TTL caches    *)
(* over unreliable upstream sources), modelled as a state machine.         *)
(*                                                                         *)
(* Time is in seconds.  A coroutine is modelled by the steps between its   *)
(* await points: the synchronous prefix up to the HTTP request (the cache  *)
(* check), and the part that runs when the response, timeout or error      *)
(* arrives.                                                                *)
(***************************************************************************)
EXTENDS Integers, Sequences, FiniteSets, TLC

(***************************************************************************)
(* Bounds of the model.                                                    *)
(***************************************************************************)
NumCalls == 2        \* reads that may be in progress together
MaxTicks == 2        \* clock advances in a behaviour of one read at a time

(***************************************************************************)
(* Program constants.                                                      *)
(***************************************************************************)
PRICE_TTL == 30      \* TTLCache(maxsize=100, ttl=30)
NEWS_TTL == 1800     \* TTLCache(maxsize=50, ttl=1800)
ALL_CRYPTO_LIMIT == 3   \* get_all_prices: self.get_crypto_prices(limit=3)

Calls == 1..NumCalls
Services == {"price", "news"}
CACHE_DURATION == 30 \* legacy revision: self.cache_duration = 30
\* the time to live of the cache of a service
ServiceTTL(service) ==
    IF service = "price" THEN PRICE_TTL
    ELSE IF service = "news" THEN NEWS_TTL
    ELSE CACHE_DURATION
\* the clock advances by two seconds, or by one second less than the time
\* to live of the service
TickSteps(service) == {2, ServiceTTL(service) - 1}

Parts == {"gold", "currency", "crypto"}
CryptoLimits == {ALL_CRYPTO_LIMIT, 5}
FailKinds == {"timeout", "status", "error"}
Kinds == {"ok"} \cup FailKinds

(***************************************************************************)
(* Python values.  A dict is a function on a set of strings, a list is a   *)
(* sequence.                                                               *)
(***************************************************************************)
EmptyDict == [k \in {} |-> 0]
EmptyList == << >>

DictGet(d, k, default) == IF k \in DOMAIN d THEN d[k] ELSE default

\* {**a, **b}: the keys of both, b's value where both have the key
DictMerge(a, b) ==
    [k \in (DOMAIN a) \cup (DOMAIN b) |-> IF k \in DOMAIN b THEN b[k] ELSE a[k]]

\* d[k] = v
DictSet(d, k, v) == [kk \in (DOMAIN d) \cup {k} |-> IF kk = k THEN v ELSE d[kk]]

\* float(s) of an upstream price string; ValueError for a non-numeric one
NumericStrings == {"1", "2"}
IsNumeric(s) == s \in NumericStrings
Float(s) == IF s = "1" THEN 1 ELSE 2

(***************************************************************************)
(* Upstream documents.                                                     *)
(***************************************************************************)
GoldUpstreamKeys ==
    {"price_gram_18k", "price_gram_24k", "coin_emami", "coin_nim", "coin_rob",
     "coin_gerami", "price_ounce", "price_mithqal"}
CurrencyUpstreamKeys ==
    {"price_dollar_rl", "price_eur", "price_gbp", "price_aed", "price_try"}

\* a document that lacks some keys, has one entry without 'p' and one
\* whose price is not a number
TgjuSparse ==
    [k \in {"price_gram_18k", "coin_emami", "price_dollar_rl", "price_eur", "price_gbp"} |->
        IF k = "coin_emami" THEN [d |-> "0"]
        ELSE IF k = "price_eur" THEN [p |-> "-", d |-> "0"]
        ELSE [p |-> "1", d |-> "0"]]
TgjuDocs == {TgjuSparse}

Coin(id, symbol, price) ==
    [id |-> id, symbol |-> symbol, name |-> id, current_price |-> price,
     price_change_percentage_24h |-> 1, market_cap |-> 10, total_volume |-> 5,
     image |-> "img"]
CoinGeckoDocs ==
    {<<Coin("ethereum", "eth", 2), Coin("bitcoin", "btc", 1)>>}

(***************************************************************************)
(* cachetools.TTLCache: key -> (value, expires).                           *)
(***************************************************************************)
\* key in cache: the key is stored and its entry has not expired
CacheContains(c, k, t) == k \in DOMAIN c /\ t < c[k].expires

\* expire(time): remove the entries whose time has come
CacheExpire(c, t) == [k \in {kk \in DOMAIN c : t < c[kk].expires} |-> c[k]]

\* a store whose entry expires two seconds early
CacheSetShort(c, k, v, t, ttl) ==
    [kk \in (DOMAIN CacheExpire(c, t)) \cup {k} |->
        IF kk = k THEN [value |-> v, expires |-> t + ttl - 2] ELSE c[kk]]

\* cache[key] = value: expire, then store with expires = now + ttl
CacheSet(c, k, v, t, ttl) ==
    LET live == CacheExpire(c, t)
    IN  [kk \in (DOMAIN live) \cup {k} |->
            IF kk = k THEN [value |-> v, expires |-> t + ttl] ELSE live[kk]]

(***************************************************************************)
(* PriceService: what each read builds from an upstream document.          *)
(***************************************************************************)
\* a JSON null in a document, and isinstance(value, dict)
JsonNull == [null |-> TRUE]
IsDict(value) == value # JsonNull

\* get_gold_prices, "Parse TGJU data": the keys whose value is a dict with a
\* numeric 'p'
gold_prices(data) ==
    [k \in {kk \in DOMAIN data : /\ IsDict(data[kk])
                                 /\ "p" \in DOMAIN data[kk]
                                 /\ IsNumeric(data[kk].p)} |->
        Float(data[k].p)]

\* get_gold_prices, "Map to our format"
gold_result(data, t) ==
    LET g == gold_prices(data)
    IN  [gold_18k |-> DictGet(g, "price_gram_18k", 0),
         gold_24k |-> DictGet(g, "price_gram_24k", 0),
         coin_emami |-> DictGet(g, "coin_emami", 0),
         coin_nim |-> DictGet(g, "coin_nim", 0),
         coin_rob |-> DictGet(g, "coin_rob", 0),
         coin_gerami |-> DictGet(g, "coin_gerami", 0),
         ounce |-> DictGet(g, "price_ounce", 0),
         mithqal |-> DictGet(g, "price_mithqal", 0),
         gold_change_24h |-> 0,
         timestamp |-> t]

\* the keys of the result of get_gold_prices and the TGJU keys they are read from
gold_mapping ==
    [gold_18k |-> "price_gram_18k", gold_24k |-> "price_gram_24k",
     coin_emami |-> "coin_emami", coin_nim |-> "coin_nim", coin_rob |-> "coin_rob",
     coin_gerami |-> "coin_gerami", ounce |-> "price_ounce", mithqal |-> "price_mithqal"]

currency_mapping ==
    [usd |-> "price_dollar_rl", eur |-> "price_eur", gbp |-> "price_gbp",
     aed |-> "price_aed", try |-> "price_try"]

\* get_currency_prices: 'p' in data[tgju_key] raises TypeError on a value
\* that is not a container, which the handler of Exception turns into {}
currency_parses(data) ==
    \A k \in DOMAIN currency_mapping :
        currency_mapping[k] \in DOMAIN data => IsDict(data[currency_mapping[k]])

\* get_currency_prices: a currency is set when its key is in the document
\* with a 'p' (0 when the price is not a number), and is left out otherwise
currency_result(data, t) ==
    LET found == {k \in DOMAIN currency_mapping :
                    /\ currency_mapping[k] \in DOMAIN data
                    /\ "p" \in DOMAIN data[currency_mapping[k]]}
    IN  [k \in found \cup {"usd_change_24h", "timestamp"} |->
            IF k = "timestamp" THEN t
            ELSE IF k = "usd_change_24h" THEN 0
            ELSE IF IsNumeric(data[currency_mapping[k]].p)
                 THEN Float(data[currency_mapping[k]].p)
                 ELSE 0]

CoinRequiredFields ==
    {"id", "symbol", "name", "current_price", "market_cap", "total_volume", "image"}

\* get_crypto_prices: coin["..."] raises KeyError on a coin that lacks a field
crypto_parses(data) ==
    \A i \in 1..Len(data) : CoinRequiredFields \subseteq DOMAIN data[i]

crypto_result(data) ==
    [i \in 1..Len(data) |->
        [id |-> data[i].id, symbol |-> data[i].symbol, name |-> data[i].name,
         price |-> data[i].current_price,
         change_24h |-> DictGet(data[i], "price_change_percentage_24h", 0),
         market_cap |-> data[i].market_cap, volume |-> data[i].total_volume,
         image |-> data[i].image]]

\* get_all_prices, "Combine results" and "Add Bitcoin separately"
all_prices_result(gold_data, currency_data, crypto_data) ==
    LET prices == DictMerge(DictMerge(gold_data, currency_data),
                            [crypto_list |-> crypto_data])
        btcs == {i \in 1..Len(crypto_data) : crypto_data[i].symbol = "btc"}
    IN  IF btcs = {} THEN prices
        ELSE LET btc == crypto_data[CHOOSE i \in btcs : \A j \in btcs : i <= j]
             IN  DictMerge(prices, [bitcoin |-> btc.price,
                                   bitcoin_change_24h |-> btc.change_24h])

\* f"crypto_prices_{limit}"
crypto_key(limit) == IF limit = 3 THEN "crypto_prices_3" ELSE "crypto_prices_5"

\* the cache key of a component read
part_key(p, limit) ==
    IF p = "gold" THEN "gold_prices"
    ELSE IF p = "currency" THEN "currency_prices"
    ELSE crypto_key(limit)

(***************************************************************************)
(* NewsService: feeds, entries and items.                                  *)
(***************************************************************************)
\* rss_feeds of get_latest_news, by the name of the site
Feeds == <<"tasnim", "fars", "isna", "mehr">>
FeedNames == {Feeds[i] : i \in 1..Len(Feeds)}
NewsLimits == {3, 5}
FEED_ENTRIES == 10     \* feed.entries[:10]

\* str.lower() on a word
Lower(w) == IF w = "BTC" THEN "btc" ELSE w

\* an entry of a parsed feed; a title is the sequence of its words, and a
\* published_parsed of 0 stands for an entry without a date
Entry(title, published, link) ==
    [title |-> title, published_parsed |-> published, link |-> link, summary |-> "s"]

\* the document each site serves
FeedDoc(f) ==
    IF f = "tasnim"
    THEN <<Entry(<<"bank", "markazi", "nerkh", "bahre", "ra", "afzayesh", "dad">>, 20, "t1")>>
    ELSE IF f = "fars"
    THEN <<Entry(<<"bank", "markazi", "nerkh", "bahre", "ra", "afzayesh", "dad.">>, 10, "f1")>>
    ELSE IF f = "isna" THEN <<Entry(<<"BTC", "up">>, 30, "i1"), Entry(<<"gold", "down">>, 40, "i2")>>
    ELSE <<Entry(<<"oil", "steady">>, 0, "m1")>>

\* entry.title raises AttributeError on an entry without a title; the loop
\* goes on to the next entry
HasTitle(entry) == "title" \in DOMAIN entry

\* the entries of the loop that become items
titled(entries) == SelectSeq(entries, HasTitle)

\* _fetch_feed: the items of the first entries of the feed
feed_items(f, entries, t) ==
    LET first == SubSeq(entries, 1, IF Len(entries) < FEED_ENTRIES THEN Len(entries)
                                    ELSE FEED_ENTRIES)
        parsed == titled(first)
    IN  [i \in 1..Len(parsed) |->
            [title |-> parsed[i].title,
             link |-> parsed[i].link,
             description |-> parsed[i].summary,
             source |-> f,
             published |-> IF parsed[i].published_parsed # 0
                           THEN parsed[i].published_parsed ELSE t,
             category |-> "economy"]]

\* the words of _similarity that do not count
common_words == {"dar", "ba", "az", "be", "baraye", "va", "ya", "ham", "niz"}

\* set(str.split()) - common_words, for a title given by its words
title_words(title) == {title[i] : i \in 1..Len(title)} \ common_words

lower_title(title) == [i \in 1..Len(title) |-> Lower(title[i])]

\* a comparison that counts a similarity of exactly 0.8 as similar
similar_from_80(t1, t2) ==
    LET words1 == title_words(t1)
        words2 == title_words(t2)
    IN  /\ words1 # {}
        /\ words2 # {}
        /\ 10 * Cardinality(words1 \cap words2) >= 8 * Cardinality(words1 \cup words2)

\* _similarity(str1, str2) > 0.8, in integers: |inter| / |union| > 8 / 10
similar(t1, t2) ==
    LET words1 == title_words(t1)
        words2 == title_words(t2)
    IN  /\ words1 # {}
        /\ words2 # {}
        /\ 10 * Cardinality(words1 \cap words2) > 8 * Cardinality(words1 \cup words2)

\* a loop that puts an item in the place of the kept item it is similar to
RECURSIVE remove_duplicates_keep_last(_, _, _)
remove_duplicates_keep_last(news_items, seen_titles, unique_items) ==
    IF news_items = << >> THEN unique_items
    ELSE LET item == Head(news_items)
             title == lower_title(item.title)
             dups == {i \in 1..Len(unique_items) :
                        similar(title, lower_title(unique_items[i].title))}
         IN  IF dups # {}
             THEN remove_duplicates_keep_last(
                      Tail(news_items), seen_titles,
                      [unique_items EXCEPT ![CHOOSE i \in dups : \A j \in dups : i <= j] = item])
             ELSE remove_duplicates_keep_last(Tail(news_items), seen_titles \cup {title},
                                              Append(unique_items, item))

\* _remove_duplicates: keep an item unless its title is similar to the
\* title of an item kept before it
RECURSIVE remove_duplicates_from(_, _, _)
remove_duplicates_from(news_items, seen_titles, unique_items) ==
    IF news_items = << >> THEN unique_items
    ELSE LET item == Head(news_items)
             title == lower_title(item.title)
             is_duplicate == \E seen \in seen_titles : similar(title, seen)
         IN  IF is_duplicate
             THEN remove_duplicates_from(Tail(news_items), seen_titles, unique_items)
             ELSE remove_duplicates_from(Tail(news_items), seen_titles \cup {title},
                                         Append(unique_items, item))

remove_duplicates(news_items) == remove_duplicates_from(news_items, {}, << >>)

\* list.sort(key=published, reverse=True): stable, newest first
RECURSIVE insert_sorted(_, _)
insert_sorted(sorted, item) ==
    IF sorted = << >> THEN <<item>>
    ELSE IF Head(sorted).published >= item.published
         THEN <<Head(sorted)>> \o insert_sorted(Tail(sorted), item)
         ELSE <<item>> \o sorted

RECURSIVE sort_newest_first(_)
sort_newest_first(items) ==
    IF items = << >> THEN << >>
    ELSE insert_sorted(sort_newest_first(SubSeq(items, 1, Len(items) - 1)),
                       items[Len(items)])

\* all_news: the results of the feeds, in the order of rss_feeds
RECURSIVE all_news_of(_, _)
all_news_of(results, i) ==
    IF i > Len(Feeds) THEN << >>
    ELSE results[Feeds[i]] \o all_news_of(results, i + 1)

Truncate(items, limit) == SubSeq(items, 1, IF Len(items) < limit THEN Len(items) ELSE limit)

\* get_latest_news that takes the first items before it removes duplicates
latest_news_truncates_first(results, limit) ==
    remove_duplicates(Truncate(sort_newest_first(all_news_of(results, 1)), limit))

\* get_latest_news after the gather: combine, sort, deduplicate, truncate
latest_news(results, limit) ==
    Truncate(remove_duplicates(sort_newest_first(all_news_of(results, 1))), limit)

news_key(limit) == IF limit = 3 THEN "news_3" ELSE "news_5"

(***************************************************************************)
(* State.                                                                  *)
(***************************************************************************)
VARIABLES
    svc,        \* the service whose reads the behaviour follows
    slots,      \* how many reads may be in progress together
    now,        \* the clock (time.monotonic / datetime.now), in seconds
    ticks,      \* clock advances so far
    cache,      \* PriceService.cache
    news_cache, \* NewsService.cache
    op,         \* per call: the read it runs ("none" when the slot is free)
    lim,        \* per call: the limit argument
    tpc,        \* per call: "idle", "running", "gathering", "done"
    part,       \* per call and component read of the price service: position, result
    feed,       \* per call and feed of the news service: position, result
    ret,        \* per call: the value returned
    reqs,       \* per call: the upstream requests it has issued
    written,    \* history: per key, the value and the time of its last write
    legacy_cache, \* legacy revision of PriceService: self.cache
    cache_time, \* legacy revision of PriceService: self.cache_time
    users,      \* the users table: per telegram id, the record or NoUser
    channels,   \* the channels table, in the order of created_at
    reply,      \* what the last handler sent to its user
    sched_state,   \* SchedulerService.scheduler: "stopped", "running" or "shutdown"
    jobs,          \* the ids of the jobs in the job store, in the order added
    instances,     \* per job id, the executions the executor counts as running
    next_run,      \* the next run time of the job the behaviour follows
    missed,        \* runs skipped because max_instances was reached
    stats,         \* SchedulerService.stats
    good,          \* history: the runs that got data from an adapter, and the last
    called,        \* the last call of start() or stop(), and how it ended
    handler_cache, \* user_handlers.price_service.cache
    consumer,      \* the last read of prices made by a handler
    given,         \* the arguments a function of the services is applied to
    applied,       \* the last application of such a function: what it returned
    sent_at        \* per call: the time its requests were sent at (-1: none)

serviceVars == <<svc, slots, now, ticks, cache, news_cache, op, lim, tpc, part, feed, ret,
                 reqs, written>>
legacyVars == <<legacy_cache, cache_time>>
gateVars == <<users, channels, reply>>
schedVars == <<sched_state, jobs, instances, next_run, missed, stats, good, called,
               handler_cache, consumer>>
funcVars == <<given, applied, sent_at>>
vars == <<serviceVars, legacyVars, gateVars, schedVars, funcVars>>

(***************************************************************************)
(* The tables of the database and the users of the bot.                    *)
(***************************************************************************)
REQUIRED_CHANNELS_COUNT == 3   \* config.REQUIRED_CHANNELS_COUNT, by default
UserIds == {1, 2}
ADMIN_IDS == {1}               \* config.ADMIN_IDS
ChannelNames == {"@a", "@b"}

\* a row of the users table; exists is false where the query for the user
\* gives None
\* vip_until is None, or a time that has passed
VipUntil == {"None", "past"}
UserRecord(is_vip, vip_until, joined_channels) ==
    [exists |-> TRUE, is_vip |-> is_vip, vip_until |-> vip_until,
     joined_channels |-> joined_channels, has_joined_required_channels |-> FALSE,
     is_active |-> TRUE, is_banned |-> FALSE]
NoUser ==
    [exists |-> FALSE, is_vip |-> FALSE, vip_until |-> "None", joined_channels |-> {},
     has_joined_required_channels |-> FALSE, is_active |-> TRUE, is_banned |-> FALSE]

\* what a handler sent: the handler, its user, the kind of message, the
\* channels the message lists, the queries the gate made for it, the
\* errors it logged, and the columns of the user's row that
\* check_user_channels committed for it
Reply(handler, user, kind, listed, checks) ==
    [handler |-> handler, user |-> user, kind |-> kind, listed |-> listed,
     checks |-> checks, errors |-> {}, commits |-> {}]

\* logger.error("Error checking user channels") when a query of the check
\* raised
Logged(r, db_ok) == IF db_ok THEN r ELSE [r EXCEPT !.errors = {"check_user_channels"}]
NoReply == Reply("none", 0, "none", << >>, {})

NoPart == [pc |-> "none", res |-> EmptyDict]
NoParts == [p \in Parts |-> NoPart]
NoFeeds == [f \in FeedNames |-> NoPart]

\* no read has been made: the clock is at 0 and the caches are empty
ServicesStart ==
    /\ now = 0
    /\ ticks = 0
    /\ cache = EmptyDict
    /\ news_cache = EmptyDict
    /\ op = [c \in Calls |-> "none"]
    /\ lim = [c \in Calls |-> 0]
    /\ tpc = [c \in Calls |-> "idle"]
    /\ part = [c \in Calls |-> NoParts]
    /\ feed = [c \in Calls |-> NoFeeds]
    /\ ret = [c \in Calls |-> EmptyDict]
    /\ reqs = [c \in Calls |-> {}]
    /\ written = EmptyDict
    /\ legacy_cache = EmptyDict
    /\ cache_time = EmptyDict

\* no handler has run on empty tables
GateStart ==
    /\ users = [u \in UserIds |-> NoUser]
    /\ channels = << >>
    /\ reply = NoReply

\* SchedulerService.__init__: an AsyncIOScheduler that was not started, no
\* job, the counters at 0 and the times None (-1); the handlers' instance of
\* PriceService has an empty cache of its own
JobIds == {"price_update", "news_update"}
NoCall == [op |-> "none", outcome |-> "none", n |-> 0]
NoRead == [n |-> 0, at |-> 0, ret |-> EmptyDict, reqs |-> {}]
SchedStart ==
    /\ sched_state = "stopped"
    /\ jobs = << >>
    /\ instances = [j \in JobIds |-> 0]
    /\ next_run = 0
    /\ missed = 0
    /\ stats = [price_updates |-> 0, news_updates |-> 0,
                last_price_update |-> -1, last_news_update |-> -1]
    /\ good = [count |-> 0, last |-> -1]
    /\ called = NoCall
    /\ handler_cache = EmptyDict
    /\ consumer = NoRead

\* no function has been applied, and no argument is given
NoInputs ==
    [of |-> "none", news_items |-> << >>, data |-> EmptyDict, coins |-> << >>,
     entries |-> << >>]
NoApply == [fn |-> "none", n |-> 0]
FuncStart ==
    /\ given = NoInputs
    /\ applied = NoApply
    /\ sent_at = [c \in Calls |-> -1]

Init ==
    /\ svc \in Services
    /\ slots \in {1, NumCalls}
    /\ ServicesStart
    /\ GateStart
    /\ SchedStart
    /\ FuncStart

\* a return hands the value to the awaiting caller in the same step of the
\* event loop: nothing else runs while a call has returned and its caller
\* has not taken the value
NoneDone == \A c \in Calls : tpc[c] \notin {"done", "raised"}

\* call slots are interchangeable: a slot is taken when those below it
\* are busy
Free(c) ==
    /\ NoneDone
    /\ c <= slots
    /\ tpc[c] = "idle"
    /\ \A b \in Calls : b < c => tpc[b] # "idle"

(***************************************************************************)
(* The clock.  An expired entry can no longer be read (key in cache is     *)
(* false for it) and the next store drops it; the model drops it when its  *)
(* time comes.                                                             *)
(***************************************************************************)
Tick(d) ==
    /\ NoneDone
    /\ slots = 1
    /\ ticks < MaxTicks
    /\ now' = now + d
    /\ ticks' = ticks + 1
    /\ cache' = CacheExpire(cache, now')
    /\ news_cache' = CacheExpire(news_cache, now')
    /\ UNCHANGED <<svc, slots, op, lim, tpc, part, feed, ret, reqs, written>>
    /\ UNCHANGED <<legacyVars, gateVars, schedVars, funcVars>>

(***************************************************************************)
(* PriceService reads.                                                     *)
(***************************************************************************)
PartDone(res) == [pc |-> "done", res |-> res]
\* the read returned from one of its failure branches
PartFailed(res) == [pc |-> "failed", res |-> res]
PartFetching == [pc |-> "fetching", res |-> EmptyDict]
Finished(st) == st.pc \in {"done", "failed"}

\* the record of a write, for the history
Written(v) == [value |-> v, at |-> now]

\* the synchronous prefix of get_gold_prices, get_currency_prices and
\* get_crypto_prices: a hit returns the cached value, a miss sends the
\* request
part_check(p, limit) ==
    LET key == part_key(p, limit)
    IN  IF CacheContains(cache, key, now) THEN PartDone(cache[key].value)
        ELSE PartFetching

\* the component read p of call c ends in st: a direct read returns the
\* result to its caller, a read inside get_all_prices hands it to the gather
FinishPart(c, p, st) ==
    IF op[c] = "all"
    THEN /\ part' = [part EXCEPT ![c][p] = st]
         /\ UNCHANGED <<tpc, ret>>
    ELSE /\ part' = [part EXCEPT ![c][p] = st]
         /\ tpc' = [tpc EXCEPT ![c] = "done"]
         /\ ret' = [ret EXCEPT ![c] = st.res]

\* a caller awaits get_gold_prices(), get_currency_prices() or
\* get_crypto_prices(limit)
get_part(c, p, limit) ==
    /\ svc = "price"
    /\ Free(c)
    /\ op' = [op EXCEPT ![c] = p]
    /\ lim' = [lim EXCEPT ![c] = limit]
    /\ LET st == part_check(p, limit)
       IN  IF st.pc = "done"
           THEN /\ tpc' = [tpc EXCEPT ![c] = "done"]
                /\ ret' = [ret EXCEPT ![c] = st.res]
                /\ reqs' = [reqs EXCEPT ![c] = {}]
           ELSE /\ tpc' = [tpc EXCEPT ![c] = "running"]
                /\ reqs' = [reqs EXCEPT ![c] = {p}]
                /\ UNCHANGED ret
    /\ part' = [part EXCEPT ![c][p] = part_check(p, limit)]
    /\ UNCHANGED <<svc, slots, now, ticks, cache, news_cache, feed, written>>
    /\ UNCHANGED <<legacyVars, gateVars, schedVars, funcVars>>

\* get_gold_prices after the request: status 200 parses, stores and returns
\* the result; another status, a timeout or an exception returns {}
get_gold_prices_response(c, kind, data) ==
    /\ NoneDone
    /\ part[c]["gold"].pc = "fetching"
    /\ IF kind = "ok"
       THEN LET result == gold_result(data, now)
            IN  /\ cache' = CacheSet(cache, "gold_prices", result, now, PRICE_TTL)
                /\ written' = DictSet(written, "gold_prices", Written(result))
                /\ FinishPart(c, "gold", PartDone(result))
       ELSE /\ FinishPart(c, "gold", PartFailed(EmptyDict))
            /\ UNCHANGED <<cache, written>>
    /\ UNCHANGED <<svc, slots, now, ticks, news_cache, op, lim, feed, reqs>>
    /\ UNCHANGED <<legacyVars, gateVars, schedVars, funcVars>>

get_currency_prices_response(c, kind, data) ==
    /\ NoneDone
    /\ part[c]["currency"].pc = "fetching"
    /\ IF kind = "ok" /\ currency_parses(data)
       THEN LET currencies == currency_result(data, now)
            IN  /\ cache' = CacheSet(cache, "currency_prices", currencies, now, PRICE_TTL)
                /\ written' = DictSet(written, "currency_prices", Written(currencies))
                /\ FinishPart(c, "currency", PartDone(currencies))
       ELSE /\ FinishPart(c, "currency", PartFailed(EmptyDict))
            /\ UNCHANGED <<cache, written>>
    /\ UNCHANGED <<svc, slots, now, ticks, news_cache, op, lim, feed, reqs>>
    /\ UNCHANGED <<legacyVars, gateVars, schedVars, funcVars>>

\* get_crypto_prices after the request; a coin without a required field
\* raises KeyError, which the handler of Exception turns into []
get_crypto_prices_response(c, kind, data) ==
    /\ NoneDone
    /\ part[c]["crypto"].pc = "fetching"
    /\ IF kind = "ok" /\ crypto_parses(data)
       THEN LET cryptos == crypto_result(data)
            IN  /\ cache' = CacheSet(cache, crypto_key(lim[c]), cryptos, now, PRICE_TTL)
                /\ written' = DictSet(written, crypto_key(lim[c]), Written(cryptos))
                /\ FinishPart(c, "crypto", PartDone(cryptos))
       ELSE /\ FinishPart(c, "crypto", PartFailed(EmptyList))
            /\ UNCHANGED <<cache, written>>
    /\ UNCHANGED <<svc, slots, now, ticks, news_cache, op, lim, feed, reqs>>
    /\ UNCHANGED <<legacyVars, gateVars, schedVars, funcVars>>

\* get_all_prices up to the gather: a hit returns the cached aggregate, a
\* miss creates the three component reads
get_all_prices_prefix(c) ==
    /\ op' = [op EXCEPT ![c] = "all"]
    /\ lim' = [lim EXCEPT ![c] = ALL_CRYPTO_LIMIT]
    /\ reqs' = [reqs EXCEPT ![c] = {}]
    /\ IF CacheContains(cache, "all_prices", now)
       THEN /\ tpc' = [tpc EXCEPT ![c] = "done"]
            /\ ret' = [ret EXCEPT ![c] = cache["all_prices"].value]
            /\ UNCHANGED part
       ELSE /\ tpc' = [tpc EXCEPT ![c] = "gathering"]
            /\ part' = [part EXCEPT ![c] =
                          [p \in Parts |-> [pc |-> "pending", res |-> EmptyDict]]]
            /\ UNCHANGED ret

\* a caller awaits get_all_prices()
get_all_prices_check(c) ==
    /\ svc = "price"
    /\ Free(c)
    /\ get_all_prices_prefix(c)
    /\ UNCHANGED <<svc, slots, now, ticks, cache, news_cache, feed, written>>
    /\ UNCHANGED <<legacyVars, gateVars, schedVars, funcVars>>

\* the three component reads created by get_all_prices start to run, one
\* after the other, when the gather is awaited
all_parts_start(c) ==
    /\ NoneDone
    /\ tpc[c] = "gathering"
    /\ \A p \in Parts : part[c][p].pc = "pending"
    /\ part' = [part EXCEPT ![c] = [p \in Parts |-> part_check(p, lim[c])]]
    /\ reqs' = [reqs EXCEPT ![c] = {p \in Parts : part_check(p, lim[c]).pc = "fetching"}]
    /\ UNCHANGED <<svc, slots, now, ticks, cache, news_cache, op, lim, tpc, feed, ret, written>>
    /\ UNCHANGED <<legacyVars, gateVars, schedVars, funcVars>>

\* get_all_prices after the gather: combine, cache, return
get_all_prices_combine(c) ==
    /\ NoneDone
    /\ tpc[c] = "gathering"
    /\ \A p \in Parts : Finished(part[c][p])
    /\ LET prices == all_prices_result(part[c]["gold"].res, part[c]["currency"].res,
                                       part[c]["crypto"].res)
       IN  /\ cache' = CacheSet(cache, "all_prices", prices, now, PRICE_TTL)
           /\ written' = DictSet(written, "all_prices", Written(prices))
           /\ ret' = [ret EXCEPT ![c] = prices]
    /\ tpc' = [tpc EXCEPT ![c] = "done"]
    /\ UNCHANGED <<svc, slots, now, ticks, news_cache, op, lim, part, feed, reqs>>
    /\ UNCHANGED <<legacyVars, gateVars, schedVars, funcVars>>

(***************************************************************************)
(* NewsService reads.                                                      *)
(***************************************************************************)
\* get_latest_news up to the gather: a hit returns the cached list, a miss
\* sends a request to every feed
get_latest_news_prefix(c, limit) ==
    /\ op' = [op EXCEPT ![c] = "news"]
    /\ lim' = [lim EXCEPT ![c] = limit]
    /\ IF CacheContains(news_cache, news_key(limit), now)
       THEN /\ tpc' = [tpc EXCEPT ![c] = "done"]
            /\ ret' = [ret EXCEPT ![c] = news_cache[news_key(limit)].value]
            /\ reqs' = [reqs EXCEPT ![c] = {}]
            /\ UNCHANGED feed
       ELSE /\ tpc' = [tpc EXCEPT ![c] = "gathering"]
            /\ feed' = [feed EXCEPT ![c] = [f \in FeedNames |-> PartFetching]]
            /\ reqs' = [reqs EXCEPT ![c] = FeedNames]
            /\ UNCHANGED ret

\* a caller awaits get_latest_news(limit)
get_latest_news_check(c, limit) ==
    /\ svc = "news"
    /\ Free(c)
    /\ get_latest_news_prefix(c, limit)
    /\ UNCHANGED <<svc, slots, now, ticks, cache, news_cache, part, written>>
    /\ UNCHANGED <<legacyVars, gateVars, schedVars, funcVars>>

\* _fetch_feed after the request: status 200 parses the entries; another
\* status, a timeout or an exception gives [].  A response only fills the
\* slot of its feed in the result list of its gather, so the order of the
\* responses of one gather is not observable: they are taken in feed order
fetch_feed_response(c, f, kind, entries) ==
    /\ NoneDone
    /\ feed[c][f].pc = "fetching"
    /\ \A i \in 1..Len(Feeds) :
          Feeds[i] = f => \A j \in 1..(i - 1) : Finished(feed[c][Feeds[j]])
    /\ feed' = [feed EXCEPT ![c][f] =
                  IF kind = "ok" THEN PartDone(feed_items(f, entries, now))
                  ELSE PartFailed(EmptyList)]
    /\ UNCHANGED <<svc, slots, now, ticks, cache, news_cache, op, lim, tpc, part, ret, reqs, written>>
    /\ UNCHANGED <<legacyVars, gateVars, schedVars, funcVars>>

\* get_latest_news after the gather
get_latest_news_combine(c) ==
    /\ NoneDone
    /\ tpc[c] = "gathering"
    /\ \A f \in FeedNames : Finished(feed[c][f])
    /\ LET news == latest_news([f \in FeedNames |-> feed[c][f].res], lim[c])
       IN  /\ news_cache' = CacheSet(news_cache, news_key(lim[c]), news, now, NEWS_TTL)
           /\ written' = DictSet(written, news_key(lim[c]), Written(news))
           /\ ret' = [ret EXCEPT ![c] = news]
    /\ tpc' = [tpc EXCEPT ![c] = "done"]
    /\ UNCHANGED <<svc, slots, now, ticks, cache, op, lim, part, feed, reqs>>
    /\ UNCHANGED <<legacyVars, gateVars, schedVars, funcVars>>

\* the caller takes the returned value; the slot is free again
Return(c) ==
    /\ tpc[c] \in {"done", "raised"}
    /\ tpc' = [tpc EXCEPT ![c] = "idle"]
    /\ op' = [op EXCEPT ![c] = "none"]
    /\ lim' = [lim EXCEPT ![c] = 0]
    /\ ret' = [ret EXCEPT ![c] = EmptyDict]
    /\ reqs' = [reqs EXCEPT ![c] = {}]
    /\ part' = [part EXCEPT ![c] = NoParts]
    /\ feed' = [feed EXCEPT ![c] = NoFeeds]
    /\ UNCHANGED <<svc, slots, now, ticks, cache, news_cache, written>>
    /\ UNCHANGED <<legacyVars, gateVars, schedVars, funcVars>>

Next ==
    \/ \E d \in TickSteps(svc) : Tick(d)
    \/ \E c \in Calls, p \in Parts, l \in CryptoLimits :
          (p = "crypto" \/ l = ALL_CRYPTO_LIMIT) /\ get_part(c, p, l)
    \/ \E c \in Calls, k \in Kinds, d \in TgjuDocs : get_gold_prices_response(c, k, d)
    \/ \E c \in Calls, k \in Kinds, d \in TgjuDocs : get_currency_prices_response(c, k, d)
    \/ \E c \in Calls, k \in Kinds, d \in CoinGeckoDocs : get_crypto_prices_response(c, k, d)
    \/ \E c \in Calls : get_all_prices_check(c)
    \/ \E c \in Calls : all_parts_start(c)
    \/ \E c \in Calls : get_all_prices_combine(c)
    \/ \E c \in Calls, l \in NewsLimits : get_latest_news_check(c, l)
    \/ \E c \in Calls, f \in FeedNames, k \in Kinds : fetch_feed_response(c, f, k, FeedDoc(f))
    \/ \E c \in Calls : get_latest_news_combine(c)
    \/ \E c \in Calls : Return(c)

Spec == Init /\ [][Next]_vars

(***************************************************************************)
(* The legacy revision of PriceService (MarketPulsePro/src/services): a    *)
(* dict cache with the time of each write.                                 *)
(***************************************************************************)
LegacyOps == {"gold", "crypto"}
LegacyGoldKeys ==
    {"18k", "24k", "ounce", "mithqal", "coin_emami", "coin_nim", "coin_rob", "coin_gerami",
     "change_24h", "change_7d", "timestamp"}

\* _extract_price: float(data[key]["p"]), 0.0 where that fails
extract_price(data, key) ==
    IF key \in DOMAIN data /\ "p" \in DOMAIN data[key] /\ IsNumeric(data[key].p)
    THEN Float(data[key].p) ELSE 0

\* _extract_change: float(data[key]["d"].replace("%", "")), 0.0 where that fails
extract_change(data, key) ==
    IF key \in DOMAIN data /\ "d" \in DOMAIN data[key] /\ IsNumeric(data[key].d)
    THEN Float(data[key].d) ELSE 0

\* get_gold_prices, "Parse TGJU data"
legacy_gold_data(data, t) ==
    [k \in LegacyGoldKeys |->
        IF k = "18k" THEN extract_price(data, "price_gram_18k")
        ELSE IF k = "24k" THEN extract_price(data, "price_gram_24k")
        ELSE IF k = "ounce" THEN extract_price(data, "price_ounce")
        ELSE IF k = "mithqal" THEN extract_price(data, "price_mithqal")
        ELSE IF k = "change_24h" THEN extract_change(data, "price_gram_24k")
        ELSE IF k = "change_7d" THEN 0
        ELSE IF k = "timestamp" THEN t
        ELSE extract_price(data, k)]

\* get_crypto_prices: every field is read with coin["..."]
legacy_crypto_parses(data) ==
    \A i \in 1..Len(data) :
        CoinRequiredFields \cup {"price_change_percentage_24h"} \subseteq DOMAIN data[i]

legacy_key(o) == IF o = "gold" THEN "gold_prices" ELSE "crypto_prices"

\* _is_cached: the key is stored and younger than cache_duration
is_cached(key) ==
    /\ key \in DOMAIN legacy_cache
    /\ key \in DOMAIN cache_time
    /\ now - cache_time[key] < CACHE_DURATION

\* self.cache.get(cache_key, default)
legacy_fallback(o) ==
    DictGet(legacy_cache, legacy_key(o), IF o = "gold" THEN EmptyDict ELSE EmptyList)

\* get_gold_prices and get_crypto_prices up to the request
legacy_get(c, o) ==
    /\ svc = "legacy"
    /\ Free(c)
    /\ op' = [op EXCEPT ![c] = o]
    /\ IF is_cached(legacy_key(o))
       THEN /\ tpc' = [tpc EXCEPT ![c] = "done"]
            /\ ret' = [ret EXCEPT ![c] = legacy_cache[legacy_key(o)]]
            /\ reqs' = [reqs EXCEPT ![c] = {}]
            /\ part' = [part EXCEPT ![c][o] = PartDone(legacy_cache[legacy_key(o)])]
       ELSE /\ tpc' = [tpc EXCEPT ![c] = "running"]
            /\ reqs' = [reqs EXCEPT ![c] = {o}]
            /\ part' = [part EXCEPT ![c][o] = PartFetching]
            /\ UNCHANGED ret
    /\ UNCHANGED <<svc, slots, now, ticks, cache, news_cache, lim, feed, written>>
    /\ UNCHANGED <<legacyVars, gateVars, schedVars, funcVars>>

\* get_gold_prices and get_crypto_prices after the request: status 200
\* stores and returns the new value; anything else returns the value
\* stored, whatever its age, or the empty default
legacy_response(c, kind, data) ==
    /\ svc = "legacy"
    /\ NoneDone
    /\ tpc[c] = "running"
    /\ LET o == op[c]
           parsed == IF o = "gold" THEN TRUE ELSE legacy_crypto_parses(data[o])
           value == IF o = "gold" THEN legacy_gold_data(data[o], now)
                    ELSE crypto_result(data[o])
       IN  IF kind = "ok" /\ parsed
           THEN /\ legacy_cache' = DictSet(legacy_cache, legacy_key(o), value)
                /\ cache_time' = DictSet(cache_time, legacy_key(o), now)
                /\ written' = DictSet(written, legacy_key(o), Written(value))
                /\ ret' = [ret EXCEPT ![c] = value]
                /\ part' = [part EXCEPT ![c][o] = PartDone(value)]
           ELSE /\ ret' = [ret EXCEPT ![c] = legacy_fallback(o)]
                /\ part' = [part EXCEPT ![c][o] = PartFailed(legacy_fallback(o))]
                /\ UNCHANGED <<legacy_cache, cache_time, written>>
    /\ tpc' = [tpc EXCEPT ![c] = "done"]
    /\ UNCHANGED <<svc, slots, now, ticks, cache, news_cache, op, lim, feed, reqs>>
    /\ UNCHANGED <<gateVars, schedVars, funcVars>>

\* get_all_prices: the list of tasks names self.get_currency_prices, which
\* the class does not define: AttributeError, before any read starts
legacy_get_all_prices(c) ==
    /\ svc = "legacy"
    /\ Free(c)
    /\ op' = [op EXCEPT ![c] = "all"]
    /\ tpc' = [tpc EXCEPT ![c] = "raised"]
    /\ reqs' = [reqs EXCEPT ![c] = {}]
    /\ UNCHANGED <<svc, slots, now, ticks, cache, news_cache, lim, part, feed, ret, written>>
    /\ UNCHANGED <<legacyVars, gateVars, schedVars, funcVars>>

InitLegacy ==
    /\ svc = "legacy"
    /\ slots \in {1, NumCalls}
    /\ ServicesStart
    /\ GateStart
    /\ SchedStart
    /\ FuncStart

NextLegacy ==
    \/ \E d \in TickSteps(svc) : Tick(d)
    \/ \E c \in Calls, o \in LegacyOps : legacy_get(c, o)
    \/ \E c \in Calls, k \in Kinds, g \in TgjuDocs, m \in CoinGeckoDocs :
          legacy_response(c, k, [gold |-> g, crypto |-> m])
    \/ \E c \in Calls : legacy_get_all_prices(c)
    \/ \E c \in Calls : Return(c)

SpecLegacy == InitLegacy /\ [][NextLegacy]_vars

(***************************************************************************)
(* The entitlement gate and the handlers behind it.  A handler is one      *)
(* step; what it sent is in reply.  A reply of kind "payload" is the       *)
(* message built from what the read of the service returned.               *)
(***************************************************************************)
RECURSIVE Reverse(_)
Reverse(seq) == IF seq = << >> THEN << >> ELSE Append(Reverse(Tail(seq)), Head(seq))

IsActive(channel) == channel.is_active

\* a query without the filter on is_active
get_required_channels_unfiltered ==
    Truncate(Reverse(channels), REQUIRED_CHANNELS_COUNT)

\* get_required_channels: the active channels, newest first, at most
\* REQUIRED_CHANNELS_COUNT of them
get_required_channels ==
    Truncate(Reverse(SelectSeq(channels, IsActive)), REQUIRED_CHANNELS_COUNT)

Usernames(chs) == [i \in 1..Len(chs) |-> chs[i].username]

\* check_user_channels that stops at the newest required channel
check_newest_channel_only(user_id, db_ok) ==
    LET required_channels == get_required_channels
        user == users[user_id]
    IN  IF ~db_ok THEN FALSE
        ELSE IF required_channels = << >> THEN TRUE
        ELSE IF ~user.exists THEN FALSE
        ELSE required_channels[1].username \in user.joined_channels

\* a check that passes a user whose has_joined_required_channels is set
check_trusts_flag(user_id, db_ok) ==
    LET required_channels == get_required_channels
        user == users[user_id]
    IN  IF ~db_ok THEN FALSE
        ELSE IF required_channels = << >> THEN TRUE
        ELSE IF ~user.exists THEN FALSE
        ELSE \/ user.has_joined_required_channels
             \/ \A i \in 1..Len(required_channels) :
                   required_channels[i].username \in user.joined_channels

\* check_user_channels; db_ok is false when a query raises, which the
\* handler of Exception turns into False
check_user_channels(user_id, db_ok) ==
    LET required_channels == get_required_channels
        user == users[user_id]
    IN  IF ~db_ok THEN FALSE
        ELSE IF required_channels = << >> THEN TRUE
        ELSE IF ~user.exists THEN FALSE
        ELSE \A i \in 1..Len(required_channels) :
                required_channels[i].username \in user.joined_channels

\* the users table after check_user_channels: the check that passes on a
\* non-empty list of channels sets has_joined_required_channels
users_checked(user_id, db_ok) ==
    IF check_user_channels(user_id, db_ok) /\ get_required_channels # << >>
    THEN [users EXCEPT ![user_id].has_joined_required_channels = TRUE]
    ELSE users

\* check_user_channels that commits the flag at every check that passes
check_commits_always(user_id, db_ok) ==
    IF check_user_channels(user_id, db_ok) /\ get_required_channels # << >>
    THEN {"has_joined_required_channels"}
    ELSE {}

\* the columns check_user_channels commits: the flag, when the check passes
\* on a non-empty list of channels and the flag is not set yet
check_commits(user_id, db_ok) ==
    IF /\ check_user_channels(user_id, db_ok)
       /\ get_required_channels # << >>
       /\ ~users[user_id].has_joined_required_channels
    THEN {"has_joined_required_channels"}
    ELSE {}

\* the reply r of a handler, with the columns the check committed
Committed(r, commits) == [r EXCEPT !.commits = commits]

\* the message of require_subscription to a user who has not joined
subscription_denial(user_id, func) ==
    Reply(func, user_id, "join_channels", Usernames(get_required_channels),
          {"check_user_channels", "get_required_channels"})

\* require_vip without the check of ADMIN_IDS
require_vip_no_admin(user_id, func, sent) ==
    IF ~users[user_id].exists \/ ~users[user_id].is_vip
    THEN Reply(func, user_id, "vip_only", << >>, {"user"})
    ELSE Reply(func, user_id, sent, << >>, {"user"})

\* require_vip that also wants vip_until not to have passed
require_vip_until(user_id, func, sent) ==
    IF user_id \in ADMIN_IDS THEN Reply(func, user_id, sent, << >>, {})
    ELSE IF \/ ~users[user_id].exists
            \/ ~users[user_id].is_vip
            \/ users[user_id].vip_until = "past"
         THEN Reply(func, user_id, "vip_only", << >>, {"user"})
         ELSE Reply(func, user_id, sent, << >>, {"user"})

\* require_vip around func, whose reply is sent: an admin passes, another
\* user passes with a record that has is_vip
require_vip(user_id, func, sent) ==
    IF user_id \in ADMIN_IDS THEN Reply(func, user_id, sent, << >>, {})
    ELSE IF ~users[user_id].exists \/ ~users[user_id].is_vip
         THEN Reply(func, user_id, "vip_only", << >>, {"user"})
         ELSE Reply(func, user_id, sent, << >>, {"user"})

\* the reply r of a handler, with the queries the gate before it made
Checked(r, checks) == [r EXCEPT !.checks = @ \cup checks]

\* require_subscription around func, which sends inner: an admin passes;
\* another user passes when check_user_channels is true or no channel is
\* required, and is sent the list of the required channels otherwise
require_subscription(user_id, db_ok, func, inner) ==
    IF user_id \in ADMIN_IDS
    THEN /\ reply' = inner
         /\ UNCHANGED users
    ELSE LET has_joined == check_user_channels(user_id, db_ok)
         IN  /\ users' = users_checked(user_id, db_ok)
             /\ reply' = Committed(Logged(
                  IF has_joined THEN Checked(inner, {"check_user_channels"})
                  ELSE IF get_required_channels # << >>
                       THEN subscription_denial(user_id, func)
                       ELSE Checked(inner, {"check_user_channels", "get_required_channels"}),
                  db_ok), check_commits(user_id, db_ok))

\* prices_command, gold_command, crypto_command and news_command: each is
\* require_subscription around a read of a service
Commands == {"prices_command", "gold_command", "crypto_command", "news_command"}

command(user_id, name, db_ok) ==
    /\ require_subscription(user_id, db_ok, name,
                            Reply(name, user_id, "payload", << >>, {}))
    /\ UNCHANGED channels
    /\ UNCHANGED <<serviceVars, legacyVars, schedVars, funcVars>>

\* show_chart: require_subscription around require_vip around the chart
show_chart(user_id, db_ok) ==
    /\ require_subscription(user_id, db_ok, "show_chart",
                            require_vip(user_id, "show_chart", "chart"))
    /\ UNCHANGED channels
    /\ UNCHANGED <<serviceVars, legacyVars, schedVars, funcVars>>

\* handle_check_membership
handle_check_membership(user_id, db_ok) ==
    /\ users' = users_checked(user_id, db_ok)
    /\ reply' = Committed(Logged(
                  IF check_user_channels(user_id, db_ok)
                  THEN Reply("callback_handler", user_id, "membership_confirmed", << >>,
                             {"check_user_channels"})
                  ELSE Reply("callback_handler", user_id, "join_channels",
                             Usernames(get_required_channels),
                             {"check_user_channels", "get_required_channels"}),
                  db_ok), check_commits(user_id, db_ok))

CallbackData == {"price_gold", "menu_news", "check_membership", "price_currency"}

\* callback_handler: for a user with a record, "Update user activity" names
\* datetime, which the module does not import: NameError.  Otherwise the
\* data is routed: price_gold to show_gold_prices and menu_news to
\* show_news_menu, which read the service and send the payload;
\* price_currency to show_currency_prices, which is not defined
callback_handler(user_id, data, db_ok) ==
    /\ IF users[user_id].exists
       THEN /\ reply' = Reply("callback_handler", user_id, "raised", << >>, {})
            /\ UNCHANGED users
       ELSE IF data \in {"price_gold", "menu_news"}
       THEN /\ reply' = Reply("callback_handler", user_id, "payload", << >>, {})
            /\ UNCHANGED users
       ELSE IF data = "check_membership"
       THEN handle_check_membership(user_id, db_ok)
       ELSE /\ reply' = Reply("callback_handler", user_id, "raised", << >>, {})
            /\ UNCHANGED users
    /\ UNCHANGED channels
    /\ UNCHANGED <<serviceVars, legacyVars, schedVars, funcVars>>

\* start_command: create the record of a new user, then check_user_channels
start_command(user_id, db_ok) ==
    LET created == IF users[user_id].exists THEN users
                   ELSE [users EXCEPT ![user_id] = UserRecord(FALSE, "None", {})]
        has_joined == check_user_channels(user_id, db_ok)
    IN  /\ users' = IF has_joined /\ get_required_channels # << >>
                    THEN [created EXCEPT ![user_id].has_joined_required_channels = TRUE]
                    ELSE created
        /\ reply' = Committed(Logged(
                      IF ~has_joined /\ get_required_channels # << >>
                      THEN Reply("start_command", user_id, "welcome_join",
                                 Usernames(get_required_channels),
                                 {"check_user_channels", "get_required_channels"})
                      ELSE Reply("start_command", user_id, "welcome", << >>,
                                 {"check_user_channels"}),
                      db_ok), check_commits(user_id, db_ok))
        /\ UNCHANGED channels
        /\ UNCHANGED <<serviceVars, legacyVars, schedVars, funcVars>>

\* addchannel_command, behind require_admin
addchannel_command(user_id, username) ==
    /\ IF user_id \notin ADMIN_IDS
       THEN /\ reply' = Reply("addchannel_command", user_id, "admin_only", << >>, {})
            /\ UNCHANGED channels
       ELSE IF \E i \in 1..Len(channels) : channels[i].username = username
       THEN /\ reply' = Reply("addchannel_command", user_id, "channel_exists", << >>, {})
            /\ UNCHANGED channels
       ELSE /\ reply' = Reply("addchannel_command", user_id, "channel_added", << >>, {})
            /\ channels' = Append(channels, [username |-> username, is_active |-> TRUE])
    /\ UNCHANGED users
    /\ UNCHANGED <<serviceVars, legacyVars, schedVars, funcVars>>

\* the rows the users table may hold before the first handler runs
UserRows ==
    {NoUser} \cup {UserRecord(v, t, j) : v \in BOOLEAN, t \in VipUntil,
                                         j \in SUBSET ChannelNames}

InitGate ==
    /\ svc = "gate"
    /\ slots = 1
    /\ ServicesStart
    /\ users \in [UserIds -> UserRows]
    /\ channels = << >>
    /\ reply = NoReply
    /\ SchedStart
    /\ FuncStart

NextGate ==
    \/ \E u \in UserIds, n \in Commands, ok \in BOOLEAN : command(u, n, ok)
    \/ \E u \in UserIds, ok \in BOOLEAN : show_chart(u, ok)
    \/ \E u \in UserIds, d \in CallbackData, ok \in BOOLEAN : callback_handler(u, d, ok)
    \/ \E u \in UserIds, ok \in BOOLEAN : start_command(u, ok)
    \/ \E u \in UserIds, n \in ChannelNames : addchannel_command(u, n)

SpecGate == InitGate /\ [][NextGate]_vars

(***************************************************************************)
(* SchedulerService: an AsyncIOScheduler with the jobs price_update and    *)
(* news_update, each an interval job with max_instances=1.  The service    *)
(* has a PriceService and a NewsService of its own: cache and news_cache   *)
(* are their caches here, and an execution of a job is a read in a call    *)
(* slot.  A behaviour follows the job of the service svc.  The bot starts  *)
(* the service once, in initialize, and stops it in _post_shutdown.        *)
(***************************************************************************)
PRICE_UPDATE_INTERVAL == 30     \* config.PRICE_UPDATE_INTERVAL
NEWS_UPDATE_INTERVAL == 3600    \* config.NEWS_UPDATE_INTERVAL
max_instances == 1              \* add_job(..., max_instances=1)
UPDATE_NEWS_LIMIT == 5          \* update_news: get_latest_news(limit=5)
MaxSchedTicks == 3      \* clock advances in a behaviour of the scheduler
MaxLifecycleCalls == 2  \* calls of start() and stop() in a behaviour
MaxConsumerReads == 1   \* reads of a handler in a behaviour of the scheduler

JobOf(service) == IF service = "price" THEN "price_update" ELSE "news_update"
Interval(service) ==
    IF service = "price" THEN PRICE_UPDATE_INTERVAL ELSE NEWS_UPDATE_INTERVAL

\* scheduler.running
running == sched_state = "running"

\* the job store has a job with this id
HasJob(store, id) == \E i \in 1..Len(store) : store[i] = id

\* the record of a call of start() or stop()
Call(name, outcome) == [op |-> name, outcome |-> outcome, n |-> called.n + 1]

\* add_job on a running scheduler: the job goes to the store at once, and an
\* id the store has raises ConflictingIdError (replace_existing is False)
add_job_conflicts(store, id) == HasJob(store, id)

\* start(): add_job for price_update, add_job for news_update, then
\* scheduler.start().  On a running scheduler the first add_job raises; on
\* one that was not started the two jobs wait for scheduler.start(), which
\* stores them and computes their first run times, one interval from now
start ==
    /\ NoneDone
    /\ called.n < MaxLifecycleCalls
    /\ sched_state # "shutdown"
    /\ IF running
       THEN IF add_job_conflicts(jobs, "price_update")
            THEN /\ called' = Call("start", "ConflictingIdError")
                 /\ UNCHANGED jobs
            ELSE IF add_job_conflicts(Append(jobs, "price_update"), "news_update")
            THEN /\ called' = Call("start", "ConflictingIdError")
                 /\ jobs' = Append(jobs, "price_update")
            ELSE /\ called' = Call("start", "SchedulerAlreadyRunningError")
                 /\ jobs' = jobs \o <<"price_update", "news_update">>
       ELSE /\ called' = Call("start", "ok")
            /\ jobs' = jobs \o <<"price_update", "news_update">>
    /\ sched_state' = "running"
    /\ next_run' = IF running THEN next_run ELSE now + Interval(svc)
    /\ UNCHANGED <<instances, missed, stats, good, handler_cache, consumer>>
    /\ UNCHANGED <<serviceVars, legacyVars, gateVars, funcVars>>

\* stop() that returns without shutting the scheduler down
stop_without_shutdown(cancel) ==
    /\ NoneDone
    /\ called.n < MaxLifecycleCalls
    /\ called' = Call("stop", "ok")
    /\ UNCHANGED <<sched_state, jobs, instances, next_run, missed, stats, good,
                   handler_cache, consumer>>
    /\ UNCHANGED <<serviceVars, legacyVars, gateVars, funcVars>>

\* stop(): scheduler.shutdown() if the scheduler is running, nothing
\* otherwise.  shutdown() ends the scheduler and its job store, so no run
\* is due any more; it does not wait for an execution that is in progress,
\* and the executor either cancels the task of that execution (cancel) or
\* leaves it to go on
stop(cancel) ==
    /\ NoneDone
    /\ called.n < MaxLifecycleCalls
    /\ called' = Call("stop", "ok")
    /\ IF running
       THEN /\ sched_state' = "shutdown"
            /\ jobs' = << >>
            /\ IF cancel
               THEN /\ instances' = [j \in JobIds |-> 0]
                    /\ tpc' = [c \in Calls |-> "idle"]
                    /\ op' = [c \in Calls |-> "none"]
                    /\ lim' = [c \in Calls |-> 0]
                    /\ ret' = [c \in Calls |-> EmptyDict]
                    /\ reqs' = [c \in Calls |-> {}]
                    /\ part' = [c \in Calls |-> NoParts]
                    /\ feed' = [c \in Calls |-> NoFeeds]
               ELSE UNCHANGED <<instances, tpc, op, lim, ret, reqs, part, feed>>
       ELSE UNCHANGED <<sched_state, jobs, instances, tpc, op, lim, ret, reqs, part, feed>>
    /\ UNCHANGED <<svc, slots, now, ticks, cache, news_cache, written>>
    /\ UNCHANGED <<next_run, missed, stats, good, handler_cache, consumer>>
    /\ UNCHANGED <<legacyVars, gateVars, funcVars>>

\* the run of the followed job is due: the timer of the scheduler wakes it
Due == running /\ HasJob(jobs, JobOf(svc)) /\ now = next_run

\* the clock advances to the next run time of the job, or by two seconds
\* while an execution is in progress or the scheduler is not running; it
\* does not pass a run that is due
sched_clock(d) ==
    /\ NoneDone
    /\ ticks < MaxSchedTicks
    /\ d > 0
    /\ d = next_run - now \/ ~running \/ \E c \in Calls : tpc[c] # "idle"
    /\ running => now + d <= next_run
    /\ now' = now + d
    /\ ticks' = ticks + 1
    /\ cache' = CacheExpire(cache, now')
    /\ news_cache' = CacheExpire(news_cache, now')
    /\ handler_cache' = CacheExpire(handler_cache, now')
    /\ UNCHANGED <<svc, slots, op, lim, tpc, part, feed, ret, reqs, written>>
    /\ UNCHANGED <<sched_state, jobs, instances, next_run, missed, stats, good, called,
                   consumer>>
    /\ UNCHANGED <<legacyVars, gateVars, funcVars>>

\* the executor that runs a due job whatever the number of its executions
instance_free_always(job) == TRUE

\* the executor runs a due job only if fewer than max_instances executions
\* of it are in progress
instance_free(job) == instances[job] < max_instances

\* a due run of a job that has max_instances executions in progress is
\* skipped; the next run is one interval later
skip_run ==
    /\ NoneDone
    /\ Due
    /\ ~instance_free(JobOf(svc))
    /\ missed' = missed + 1
    /\ next_run' = next_run + Interval(svc)
    /\ UNCHANGED <<sched_state, jobs, instances, stats, good, called, handler_cache,
                   consumer>>
    /\ UNCHANGED <<serviceVars, legacyVars, gateVars, funcVars>>

\* a due run of price_update: update_prices up to the gather of
\* get_all_prices, on the PriceService of the scheduler
update_prices(c) ==
    /\ svc = "price"
    /\ Due
    /\ instance_free("price_update")
    /\ Free(c)
    /\ instances' = [instances EXCEPT !["price_update"] = @ + 1]
    /\ next_run' = next_run + PRICE_UPDATE_INTERVAL
    /\ get_all_prices_prefix(c)
    /\ UNCHANGED <<svc, slots, now, ticks, cache, news_cache, feed, written>>
    /\ UNCHANGED <<sched_state, jobs, missed, stats, good, called, handler_cache, consumer>>
    /\ UNCHANGED <<legacyVars, gateVars, funcVars>>

\* a due run of news_update: update_news up to the gather of
\* get_latest_news(limit=5), on the NewsService of the scheduler
update_news(c) ==
    /\ svc = "news"
    /\ Due
    /\ instance_free("news_update")
    /\ Free(c)
    /\ instances' = [instances EXCEPT !["news_update"] = @ + 1]
    /\ next_run' = next_run + NEWS_UPDATE_INTERVAL
    /\ get_latest_news_prefix(c, UPDATE_NEWS_LIMIT)
    /\ UNCHANGED <<svc, slots, now, ticks, cache, news_cache, part, written>>
    /\ UNCHANGED <<sched_state, jobs, missed, stats, good, called, handler_cache, consumer>>
    /\ UNCHANGED <<legacyVars, gateVars, funcVars>>

\* the execution in slot c sent a request that was answered with data
GotData(c) ==
    \/ \E p \in Parts : p \in reqs[c] /\ part[c][p].pc = "done"
    \/ \E f \in FeedNames : f \in reqs[c] /\ feed[c][f].pc = "done"

\* the end of an execution that leaves the count of the executor as it is
release_keeps_instance(c) ==
    /\ tpc' = [tpc EXCEPT ![c] = "idle"]
    /\ op' = [op EXCEPT ![c] = "none"]
    /\ lim' = [lim EXCEPT ![c] = 0]
    /\ ret' = [ret EXCEPT ![c] = EmptyDict]
    /\ reqs' = [reqs EXCEPT ![c] = {}]
    /\ part' = [part EXCEPT ![c] = NoParts]
    /\ feed' = [feed EXCEPT ![c] = NoFeeds]
    /\ instances' = instances
    /\ good' = IF GotData(c) THEN [count |-> good.count + 1, last |-> now] ELSE good

\* the slot of an execution that returned is free again, and the executor
\* counts one execution less
release(c) ==
    /\ tpc' = [tpc EXCEPT ![c] = "idle"]
    /\ op' = [op EXCEPT ![c] = "none"]
    /\ lim' = [lim EXCEPT ![c] = 0]
    /\ ret' = [ret EXCEPT ![c] = EmptyDict]
    /\ reqs' = [reqs EXCEPT ![c] = {}]
    /\ part' = [part EXCEPT ![c] = NoParts]
    /\ feed' = [feed EXCEPT ![c] = NoFeeds]
    /\ instances' = [instances EXCEPT ![JobOf(svc)] = IF @ > 0 THEN @ - 1 ELSE 0]
    /\ good' = IF GotData(c) THEN [count |-> good.count + 1, last |-> now] ELSE good

\* update_prices after get_all_prices returned: the counter and the time
update_prices_return(c) ==
    /\ svc = "price"
    /\ tpc[c] = "done"
    /\ stats' = [stats EXCEPT !.price_updates = @ + 1, !.last_price_update = now]
    /\ release(c)
    /\ UNCHANGED <<svc, slots, now, ticks, cache, news_cache, written>>
    /\ UNCHANGED <<sched_state, jobs, next_run, missed, called, handler_cache, consumer>>
    /\ UNCHANGED <<legacyVars, gateVars, funcVars>>

\* update_news after get_latest_news returned
update_news_return(c) ==
    /\ svc = "news"
    /\ tpc[c] = "done"
    /\ stats' = [stats EXCEPT !.news_updates = @ + 1, !.last_news_update = now]
    /\ release(c)
    /\ UNCHANGED <<svc, slots, now, ticks, cache, news_cache, written>>
    /\ UNCHANGED <<sched_state, jobs, next_run, missed, called, handler_cache, consumer>>
    /\ UNCHANGED <<legacyVars, gateVars, funcVars>>

(***************************************************************************)
(* A read of prices by a handler: prices_command awaits get_all_prices()   *)
(* of the PriceService that user_handlers constructs for itself.  Nothing  *)
(* else uses that instance here, so the read is one step, taken between    *)
(* the executions of the scheduler.                                        *)
(***************************************************************************)
\* a component read on the cache hc, answered with kind and data
read_part(hc, p, kind, data) ==
    LET key == part_key(p, ALL_CRYPTO_LIMIT)
        fetched == IF p = "gold" THEN gold_result(data, now)
                   ELSE IF p = "currency" THEN currency_result(data, now)
                   ELSE crypto_result(data)
        parses == /\ p = "crypto" => crypto_parses(data)
                  /\ p = "currency" => currency_parses(data)
    IN  IF CacheContains(hc, key, now)
        THEN [res |-> hc[key].value, cache |-> hc, reqs |-> {}]
        ELSE IF kind = "ok" /\ parses
        THEN [res |-> fetched, cache |-> CacheSet(hc, key, fetched, now, PRICE_TTL),
              reqs |-> {p}]
        ELSE [res |-> IF p = "crypto" THEN EmptyList ELSE EmptyDict, cache |-> hc,
              reqs |-> {p}]

\* get_all_prices on the cache hc
read_all_prices(hc, kinds, tgju, coins) ==
    IF CacheContains(hc, "all_prices", now)
    THEN [res |-> hc["all_prices"].value, cache |-> hc, reqs |-> {}]
    ELSE LET gold == read_part(hc, "gold", kinds["gold"], tgju)
             currency == read_part(gold.cache, "currency", kinds["currency"], tgju)
             crypto == read_part(currency.cache, "crypto", kinds["crypto"], coins)
             prices == all_prices_result(gold.res, currency.res, crypto.res)
         IN  [res |-> prices,
              cache |-> CacheSet(crypto.cache, "all_prices", prices, now, PRICE_TTL),
              reqs |-> gold.reqs \cup currency.reqs \cup crypto.reqs]

\* the adapters of a read of a handler all answer, or all time out
ConsumerKinds == {[p \in Parts |-> k] : k \in {"ok", "timeout"}}

prices_command_read(kinds, tgju, coins) ==
    /\ svc = "price"
    /\ NoneDone
    /\ consumer.n < MaxConsumerReads
    /\ \A c \in Calls : tpc[c] = "idle"
    /\ LET r == read_all_prices(handler_cache, kinds, tgju, coins)
       IN  /\ handler_cache' = r.cache
           /\ consumer' = [n |-> consumer.n + 1, at |-> now, ret |-> r.res,
                           reqs |-> r.reqs]
    /\ UNCHANGED <<sched_state, jobs, instances, next_run, missed, stats, good, called>>
    /\ UNCHANGED <<serviceVars, legacyVars, gateVars, funcVars>>

\* the answers to the requests of an execution: data, or a timeout; the
\* answers to the requests of one gather come in the order of the requests
SchedKinds == {"ok", "timeout"}

InitSched ==
    /\ svc \in Services
    /\ slots = NumCalls
    /\ ServicesStart
    /\ GateStart
    /\ SchedStart
    /\ FuncStart

\* the scheduler alone
NextSched ==
    \/ start
    \/ \E cancel \in BOOLEAN : stop(cancel)
    \/ \E d \in {2, next_run - now} : sched_clock(d)
    \/ skip_run
    \/ \E c \in Calls : update_prices(c)
    \/ \E c \in Calls : update_news(c)
    \/ \E c \in Calls : all_parts_start(c)
    \/ \E c \in Calls, k \in SchedKinds, d \in TgjuDocs :
          get_gold_prices_response(c, k, d)
    \/ \E c \in Calls, k \in SchedKinds, d \in TgjuDocs :
          Finished(part[c]["gold"]) /\ get_currency_prices_response(c, k, d)
    \/ \E c \in Calls, k \in SchedKinds, d \in CoinGeckoDocs :
          Finished(part[c]["currency"]) /\ get_crypto_prices_response(c, k, d)
    \/ \E c \in Calls : get_all_prices_combine(c)
    \/ \E c \in Calls, f \in FeedNames, k \in SchedKinds :
          fetch_feed_response(c, f, k, FeedDoc(f))
    \/ \E c \in Calls : get_latest_news_combine(c)
    \/ \E c \in Calls : update_prices_return(c)
    \/ \E c \in Calls : update_news_return(c)

SpecSched == InitSched /\ [][NextSched]_vars

\* the scheduler and the reads of a handler, each on its own instances of
\* the services
NextShared ==
    \/ start
    \/ \E cancel \in BOOLEAN : stop(cancel)
    \/ \E d \in {2, next_run - now} : sched_clock(d)
    \/ skip_run
    \/ \E c \in Calls : update_prices(c)
    \/ \E c \in Calls : update_news(c)
    \/ \E c \in Calls : all_parts_start(c)
    \/ \E c \in Calls, k \in SchedKinds, d \in TgjuDocs :
          get_gold_prices_response(c, k, d)
    \/ \E c \in Calls, k \in SchedKinds, d \in TgjuDocs :
          Finished(part[c]["gold"]) /\ get_currency_prices_response(c, k, d)
    \/ \E c \in Calls, k \in SchedKinds, d \in CoinGeckoDocs :
          Finished(part[c]["currency"]) /\ get_crypto_prices_response(c, k, d)
    \/ \E c \in Calls : get_all_prices_combine(c)
    \/ \E c \in Calls, f \in FeedNames, k \in SchedKinds :
          fetch_feed_response(c, f, k, FeedDoc(f))
    \/ \E c \in Calls : get_latest_news_combine(c)
    \/ \E c \in Calls : update_prices_return(c)
    \/ \E c \in Calls : update_news_return(c)
    \/ \E k \in ConsumerKinds, d \in TgjuDocs, cd \in CoinGeckoDocs :
          prices_command_read(k, d, cd)

SpecShared == InitSched /\ [][NextShared]_vars

(***************************************************************************)
(* The functions of the services on arguments of their own: a behaviour    *)
(* starts with the arguments given and applies a function to them.         *)
(***************************************************************************)
MaxItems == 3   \* items in a list given to a function of NewsService
MaxApply == 2   \* applications of _remove_duplicates, each to the result before

\* a news item as _fetch_feed builds it
NewsItem(title, published, source, link) ==
    [title |-> title, link |-> link, description |-> "s", source |-> source,
     published |-> published, category |-> "economy"]

\* items of the four feeds: one title of seven words and the same title with
\* a full stop after its last word; titles of four, five and six words that
\* share four or five of them; two titles that differ in case and in a word
\* of common_words
GoldTitle == <<"gold", "price", "up", "today">>
NewsPool ==
    {NewsItem(<<"bank", "markazi", "nerkh", "bahre", "ra", "afzayesh", "dad">>, 20,
              "tasnim", "t1"),
     NewsItem(<<"bank", "markazi", "nerkh", "bahre", "ra", "afzayesh", "dad.">>, 10,
              "fars", "f1"),
     NewsItem(GoldTitle, 30, "isna", "i1"),
     NewsItem(GoldTitle \o <<"tehran">>, 40, "mehr", "m1"),
     NewsItem(GoldTitle \o <<"tehran", "market">>, 50, "tasnim", "t2"),
     NewsItem(GoldTitle \o <<"tehran", "bazaar">>, 60, "fars", "f2"),
     NewsItem(<<"BTC", "dar", "up">>, 30, "isna", "i2"),
     NewsItem(<<"btc", "up">>, 20, "mehr", "m2")}

\* the lists of at most MaxItems items, no item twice
ItemLists ==
    {l \in UNION {[1..n -> NewsPool] : n \in 0..MaxItems} :
        \A i, j \in 1..Len(l) : i # j => l[i] # l[j]}

\* the limit argument of get_latest_news
GivenLimits == {1, 2} \cup NewsLimits

\* the result of each feed, for items that name their feed
by_feed(items) == [f \in FeedNames |-> SelectSeq(items, LAMBDA it : it.source = f)]

\* _remove_duplicates(news_items), and again on what it returned
remove_duplicates_call ==
    /\ given.of = "news"
    /\ applied.fn \in {"none", "remove_duplicates"}
    /\ applied.n < MaxApply
    /\ LET arg == IF applied.fn = "none" THEN given.news_items ELSE applied.value
       IN  applied' = [fn |-> "remove_duplicates", n |-> applied.n + 1, arg |-> arg,
                       value |-> remove_duplicates(arg)]
    /\ UNCHANGED <<given, sent_at>>
    /\ UNCHANGED <<serviceVars, legacyVars, gateVars, schedVars>>

\* get_latest_news(limit) after the gather, the feeds having returned the
\* items given
latest_news_call(limit) ==
    /\ given.of = "news"
    /\ applied.fn = "none"
    /\ applied' = [fn |-> "latest_news", n |-> 1, arg |-> given.news_items,
                   limit |-> limit,
                   value |-> latest_news(by_feed(given.news_items), limit)]
    /\ UNCHANGED <<given, sent_at>>
    /\ UNCHANGED <<serviceVars, legacyVars, gateVars, schedVars>>

\* a record without one of its fields
Without(r, field) == [k \in (DOMAIN r) \ {field} |-> r[k]]

\* the lists of at most MaxItems elements of a set
Lists(S) == UNION {[1..n -> S] : n \in 0..MaxItems}

\* responses of CoinGecko: coins that have every field, and coins that lack
\* the price or the market capitalisation
CoinPool ==
    {Coin("bitcoin", "btc", 1), Coin("ethereum", "eth", 2),
     Without(Coin("solana", "sol", 1), "current_price"),
     Without(Coin("cardano", "ada", 2), "market_cap")}

\* parsed feeds: entries with a title and a date, an entry without a date
\* and an entry without a title
EntryPool ==
    {Entry(<<"gold", "up">>, 20, "e1"), Entry(<<"oil", "steady">>, 0, "e2"),
     Without(Entry(<<"none">>, 30, "e3"), "title")}

\* documents of TGJU: each of two gold keys and two currency keys is
\* missing, or has a price, a price that is no number, no price, or null
TgjuValues == {[p |-> "1", d |-> "0"], [p |-> "-", d |-> "0"], [d |-> "0"], JsonNull}
TgjuKeysGiven == {"price_gram_18k", "coin_emami", "price_dollar_rl", "price_eur"}
TgjuInputs == UNION {[ks -> TgjuValues] : ks \in SUBSET TgjuKeysGiven}

\* get_gold_prices on a response of status 200
get_gold_prices_call ==
    /\ given.of = "tgju"
    /\ applied.fn = "none"
    /\ applied' = [fn |-> "get_gold_prices", n |-> 1, arg |-> given.data,
                   value |-> gold_result(given.data, now)]
    /\ UNCHANGED <<given, sent_at>>
    /\ UNCHANGED <<serviceVars, legacyVars, gateVars, schedVars>>

\* get_currency_prices on a response of status 200
get_currency_prices_call ==
    /\ given.of = "tgju"
    /\ applied.fn = "none"
    /\ applied' = [fn |-> "get_currency_prices", n |-> 1, arg |-> given.data,
                   value |-> IF currency_parses(given.data)
                             THEN currency_result(given.data, now) ELSE EmptyDict]
    /\ UNCHANGED <<given, sent_at>>
    /\ UNCHANGED <<serviceVars, legacyVars, gateVars, schedVars>>

\* get_crypto_prices on a response of status 200
get_crypto_prices_call ==
    /\ given.of = "coins"
    /\ applied.fn = "none"
    /\ applied' = [fn |-> "get_crypto_prices", n |-> 1, arg |-> given.coins,
                   value |-> IF crypto_parses(given.coins)
                             THEN crypto_result(given.coins) ELSE EmptyList]
    /\ UNCHANGED <<given, sent_at>>
    /\ UNCHANGED <<serviceVars, legacyVars, gateVars, schedVars>>

\* _fetch_feed on a response of status 200
fetch_feed_call(f) ==
    /\ given.of = "entries"
    /\ applied.fn = "none"
    /\ applied' = [fn |-> "_fetch_feed", n |-> 1, arg |-> given.entries,
                   value |-> feed_items(f, given.entries, now)]
    /\ UNCHANGED <<given, sent_at>>
    /\ UNCHANGED <<serviceVars, legacyVars, gateVars, schedVars>>

\* the channels table: at most MaxChannels rows in the order of created_at,
\* no username twice, each row active or not
MaxChannels == 5
GivenChannelNames == {"@a", "@b", "@c", "@d", "@e"}
ChannelRows == [username : GivenChannelNames, is_active : BOOLEAN]
ChannelTables ==
    {t \in UNION {[1..n -> ChannelRows] : n \in 0..MaxChannels} :
        \A i, j \in 1..Len(t) : i # j => t[i].username # t[j].username}

\* the usernames of the active rows of a table
ActiveNames(table) == {table[i].username : i \in {j \in 1..Len(table) : table[j].is_active}}

\* get_required_channels() on the channels table
get_required_channels_call ==
    /\ given.of = "channels"
    /\ applied.fn = "none"
    /\ applied' = [fn |-> "get_required_channels", n |-> 1, arg |-> channels,
                   value |-> get_required_channels]
    /\ UNCHANGED <<given, sent_at>>
    /\ UNCHANGED <<serviceVars, legacyVars, gateVars, schedVars>>

\* check_user_channels(user_id) on the channels table
check_user_channels_call(user_id) ==
    /\ given.of = "channels"
    /\ applied.fn = "none"
    /\ applied' = [fn |-> "check_user_channels", n |-> 1, arg |-> user_id,
                   value |-> check_user_channels(user_id, TRUE)]
    /\ users' = users_checked(user_id, TRUE)
    /\ UNCHANGED <<given, sent_at, channels, reply>>
    /\ UNCHANGED <<serviceVars, legacyVars, schedVars>>

\* the arguments given: a list of news items, a document of TGJU, a
\* response of CoinGecko, the entries of a feed, or a channels table with
\* users who have joined every active channel and no other
InitFunc ==
    /\ svc = "news"
    /\ slots = NumCalls
    /\ ServicesStart
    /\ SchedStart
    /\ applied = NoApply
    /\ sent_at = [c \in Calls |-> -1]
    /\ reply = NoReply
    /\ \/ /\ users = [u \in UserIds |-> NoUser]
          /\ channels = << >>
          /\ \/ given \in {[NoInputs EXCEPT !.of = "news", !.news_items = l] :
                              l \in ItemLists}
             \/ given \in {[NoInputs EXCEPT !.of = "tgju", !.data = d] : d \in TgjuInputs}
             \/ given \in {[NoInputs EXCEPT !.of = "coins", !.coins = l] :
                              l \in Lists(CoinPool)}
             \/ given \in {[NoInputs EXCEPT !.of = "entries", !.entries = l] :
                              l \in Lists(EntryPool)}
       \/ /\ given = [NoInputs EXCEPT !.of = "channels"]
          /\ channels \in ChannelTables
          /\ users = [u \in UserIds |-> UserRecord(FALSE, "None", ActiveNames(channels))]

NextFunc ==
    \/ remove_duplicates_call
    \/ \E limit \in GivenLimits : latest_news_call(limit)
    \/ get_gold_prices_call
    \/ get_currency_prices_call
    \/ get_crypto_prices_call
    \/ \E f \in FeedNames : fetch_feed_call(f)
    \/ get_required_channels_call
    \/ \E u \in UserIds : check_user_channels_call(u)

SpecFunc == InitFunc /\ [][NextFunc]_vars

(***************************************************************************)
(* The reads with the time of their requests.  Every request is made with  *)
(* aiohttp.ClientTimeout(total=...): it is answered before that time has   *)
(* passed since it was sent_at, or it raises asyncio.TimeoutError when it has. *)
(***************************************************************************)
TGJU_TIMEOUT == 10        \* get_gold_prices, get_currency_prices
COINGECKO_TIMEOUT == 15   \* get_crypto_prices
FEED_TIMEOUT == 10        \* _fetch_feed
ClockStep == 5            \* seconds by which the clock of these reads advances
MaxTimedTicks == 4        \* clock advances in a behaviour of the timed reads

\* a request that is given twice the time
timeout_doubled(p) == 2 * (IF p = "crypto" THEN COINGECKO_TIMEOUT ELSE TGJU_TIMEOUT)

\* ClientTimeout(total=...) of the request of a component read
timeout_of(p) == IF p = "crypto" THEN COINGECKO_TIMEOUT ELSE TGJU_TIMEOUT

\* the times at which a request in flight raises TimeoutError
Deadlines ==
    {sent_at[x[1]] + timeout_of(x[2]) :
        x \in {y \in Calls \X Parts : part[y[1]][y[2]].pc = "fetching"}}
    \cup {sent_at[c] + FEED_TIMEOUT :
            c \in {cc \in Calls : \E f \in FeedNames : feed[cc][f].pc = "fetching"}}

\* the clock advances, but not past the time at which a request in flight
\* raises TimeoutError, and not while a read has something to do that waits
\* for no request: to send its requests, or to combine their results
timed_clock ==
    /\ NoneDone
    /\ ticks < MaxTimedTicks
    /\ \A c \in Calls :
          tpc[c] = "gathering" =>
              \/ \E p \in Parts : part[c][p].pc = "fetching"
              \/ \E f \in FeedNames : feed[c][f].pc = "fetching"
    /\ \A t \in Deadlines : now + ClockStep <= t
    /\ now' = now + ClockStep
    /\ ticks' = ticks + 1
    /\ cache' = CacheExpire(cache, now')
    /\ news_cache' = CacheExpire(news_cache, now')
    /\ UNCHANGED <<svc, slots, op, lim, tpc, part, feed, ret, reqs, written>>
    /\ UNCHANGED <<legacyVars, gateVars, schedVars, funcVars>>

\* a caller awaits get_all_prices(): the requests of a miss are sent now
timed_get_all_prices(c) ==
    /\ svc = "price"
    /\ Free(c)
    /\ get_all_prices_prefix(c)
    /\ sent_at' = [sent_at EXCEPT ![c] = now]
    /\ UNCHANGED <<svc, slots, now, ticks, cache, news_cache, feed, written>>
    /\ UNCHANGED <<given, applied>>
    /\ UNCHANGED <<legacyVars, gateVars, schedVars>>

\* a caller awaits get_latest_news(limit)
timed_get_latest_news(c, limit) ==
    /\ svc = "news"
    /\ Free(c)
    /\ get_latest_news_prefix(c, limit)
    /\ sent_at' = [sent_at EXCEPT ![c] = now]
    /\ UNCHANGED <<svc, slots, now, ticks, cache, news_cache, part, written>>
    /\ UNCHANGED <<given, applied>>
    /\ UNCHANGED <<legacyVars, gateVars, schedVars>>

\* the request of the component read p of call c is answered in time
InTime(c, p) == now < sent_at[c] + timeout_of(p)

\* the request of the component read p of call c has run out of time
TimedOut(c, p) == now = sent_at[c] + timeout_of(p)

\* a request answered with status 200 in time, or ended by its timeout
timed_gold(c, kind, data) ==
    /\ IF kind = "ok" THEN InTime(c, "gold") ELSE TimedOut(c, "gold")
    /\ get_gold_prices_response(c, kind, data)

timed_currency(c, kind, data) ==
    /\ Finished(part[c]["gold"])
    /\ IF kind = "ok" THEN InTime(c, "currency") ELSE TimedOut(c, "currency")
    /\ get_currency_prices_response(c, kind, data)

timed_crypto(c, kind, data) ==
    /\ IF kind = "ok" THEN InTime(c, "crypto") ELSE TimedOut(c, "crypto")
    /\ get_crypto_prices_response(c, kind, data)

timed_feed(c, f, kind) ==
    /\ IF kind = "ok" THEN now < sent_at[c] + FEED_TIMEOUT ELSE now = sent_at[c] + FEED_TIMEOUT
    /\ fetch_feed_response(c, f, kind, FeedDoc(f))

\* one read at a time
InitTimed ==
    /\ svc \in Services
    /\ slots = 1
    /\ ServicesStart
    /\ GateStart
    /\ SchedStart
    /\ FuncStart

NextTimed ==
    \/ timed_clock
    \/ \E c \in Calls : timed_get_all_prices(c)
    \/ \E c \in Calls : all_parts_start(c)
    \/ \E c \in Calls, k \in SchedKinds, d \in TgjuDocs : timed_gold(c, k, d)
    \/ \E c \in Calls, k \in SchedKinds, d \in TgjuDocs : timed_currency(c, k, d)
    \/ \E c \in Calls, k \in SchedKinds, d \in CoinGeckoDocs : timed_crypto(c, k, d)
    \/ \E c \in Calls : get_all_prices_combine(c)
    \/ \E c \in Calls, l \in NewsLimits : timed_get_latest_news(c, l)
    \/ \E c \in Calls, f \in FeedNames, k \in SchedKinds : timed_feed(c, f, k)
    \/ \E c \in Calls : get_latest_news_combine(c)
    \/ \E c \in Calls : Return(c)

SpecTimed == InitTimed /\ [][NextTimed]_vars

(***************************************************************************)
(* Properties of the services.                                             *)
(***************************************************************************)
\* the cache key of the read o with limit l
ReadKey(o, l) ==
    IF o = "all" THEN "all_prices"
    ELSE IF o = "news" THEN news_key(l)
    ELSE part_key(o, l)

TTL(k) == IF k \in {news_key(l) : l \in NewsLimits} THEN NEWS_TTL ELSE PRICE_TTL

\* the keys for which call c has an upstream request in flight
Fetching(c) ==
    {part_key(p, lim[c]) : p \in {pp \in Parts : part[c][pp].pc = "fetching"}}
    \cup (IF \E f \in FeedNames : feed[c][f].pc = "fetching"
          THEN {news_key(lim[c])} ELSE {})

\* every adapter of the read o failed, o's component reads being in ps and
\* its feeds in fs
AllFailed(o, ps, fs) ==
    IF o = "news" THEN \A f \in FeedNames : fs[f].pc = "failed"
    ELSE IF o = "all" THEN \A p \in Parts : ps[p].pc = "failed"
    ELSE o \in Parts /\ ps[o].pc = "failed"

\* key k is stored and has not expired
Live(k) == CacheContains(cache, k, now) \/ CacheContains(news_cache, k, now)

\* C1: single-flight: whatever reads are in progress together, no key has
\* more than one upstream fetch in flight.
C1_SingleFlight ==
    \A c1, c2 \in Calls : c1 # c2 => Fetching(c1) \cap Fetching(c2) = {}

\* two reads of the gold prices are in flight for the same key
C1_TwoFetches ==
    /\ part[1]["gold"].pc = "fetching"
    /\ part[2]["gold"].pc = "fetching"
    /\ op[1] = "gold" /\ op[2] = "gold"

\* C2: stale-but-available: a read of a key that was written before and has
\* expired, and all of whose adapters fail, returns the value last written.
C2_StaleButAvailable ==
    \A c \in Calls :
        LET k == ReadKey(op[c], lim[c])
        IN  (/\ tpc[c] = "done"
             /\ AllFailed(op[c], part[c], feed[c])
             /\ k \in DOMAIN written
             /\ ~Live(k))
            => ret[c] = written[k].value

\* a read of the gold prices failed after the entry written before expired
C2_FailedAfterExpiry ==
    /\ tpc[1] = "done" /\ op[1] = "gold"
    /\ part[1]["gold"].pc = "failed"
    /\ "gold_prices" \in DOMAIN written
    /\ now > written["gold_prices"].at + PRICE_TTL

\* C4: a step in which a read returns after none of its adapters succeeded,
\* its key never having been written before, returns an empty mapping or an
\* empty list.
C4_EmptyPayload ==
    [][\A c \in Calls :
          (/\ tpc[c] # "done" /\ tpc'[c] = "done"
           /\ AllFailed(op'[c], part'[c], feed'[c])
           /\ ReadKey(op'[c], lim'[c]) \notin DOMAIN written)
          => ret'[c] \in {EmptyDict, EmptyList}]_vars

\* get_all_prices returned on an empty cache after its three reads failed
C4_AllFailedNoPrior ==
    /\ tpc[1] = "done" /\ op[1] = "all"
    /\ \A p \in Parts : part[1][p].pc = "failed"
    /\ DOMAIN written = {"all_prices"}
    /\ written["all_prices"].at = now

\* C6: a step in which a read returns after every one of its adapters
\* failed writes no cache entry.
C6_WriteOnlyOnSuccess ==
    [][\A c \in Calls :
          (tpc[c] # "done" /\ tpc'[c] = "done" /\ AllFailed(op'[c], part'[c], feed'[c]))
          => (cache' = cache /\ news_cache' = news_cache)]_vars

\* the news cache holds the list of a fetch in which every feed failed
C6_AllFailedStored ==
    /\ tpc[1] = "done" /\ op[1] = "news"
    /\ \A f \in FeedNames : feed[1][f].pc = "failed"
    /\ news_key(lim[1]) \in DOMAIN news_cache
    /\ written[news_key(lim[1])].at = now

\* key k was written less than its time to live ago
Fresh(k) == k \in DOMAIN written /\ now < written[k].at + TTL(k)

\* key k was written more than its time to live ago
Expired(k) == k \in DOMAIN written /\ now > written[k].at + TTL(k)

\* a step in which call c arrives at its cache check, fresh reads being
\* hits that return the value written and send no request, and reads of
\* expired keys being misses
ReadStep(c) ==
    (tpc[c] = "idle" /\ tpc'[c] # "idle") =>
        LET k == ReadKey(op'[c], lim'[c])
        IN  /\ Fresh(k) =>
                (tpc'[c] = "done" /\ ret'[c] = written[k].value /\ reqs'[c] = {})
            /\ Expired(k) => tpc'[c] # "done"

\* a step in which the component reads of the get_all_prices of call c start
GatherStarts(c) ==
    /\ op[c] = "all"
    /\ \A p \in Parts : part[c][p].pc = "pending"
    /\ \A p \in Parts : part'[c][p].pc # "pending"

C5_PartialSuccessMerge ==
    \A c \in Calls : op[c] = "all" => tpc[c] # "raised"

\* the legacy get_all_prices raised on an empty cache
C5_LegacyAllRaised ==
    /\ svc = "legacy"
    /\ op[1] = "all" /\ tpc[1] = "raised"
    /\ legacy_cache = EmptyDict

(***************************************************************************)
(* Properties of the entitlement gate.  In every state of SpecGate, reply  *)
(* is what the last handler sent and the tables are as it left them.       *)
(***************************************************************************)
RequiredUsernames ==
    {get_required_channels[i].username : i \in 1..Len(get_required_channels)}

\* the subscription requirement of user u: no channel is required, or u has
\* a record whose joined_channels has every required username
Subscribed(u) ==
    RequiredUsernames = {} \/ (users[u].exists /\ RequiredUsernames \subseteq users[u].joined_channels)

\* the handlers behind require_subscription
Gated == Commands \cup {"show_chart"}

\* C7: no handler, command or callback, sends a price or news payload to a
\* user who is not an admin and does not meet the subscription requirement.
C7_GateBeforeEveryRead ==
    (reply.kind = "payload" /\ reply.user \notin ADMIN_IDS) => Subscribed(reply.user)

\* a callback sent a payload to a user without a record while a channel
\* is required
C7_UngatedCallback ==
    /\ reply.handler = "callback_handler" /\ reply.kind = "payload"
    /\ reply.user \notin ADMIN_IDS
    /\ ~users[reply.user].exists
    /\ RequiredUsernames # {}

\* C8: a handler behind require_subscription, or behind it and require_vip,
\* called by an admin runs, whatever the tables hold, and the gates make no
\* query and log no error for it.
C8_AdminBypass ==
    (reply.user \in ADMIN_IDS /\ reply.handler \in Gated) =>
        /\ reply.kind = (IF reply.handler = "show_chart" THEN "chart" ELSE "payload")
        /\ reply.checks = {}
        /\ reply.errors = {}

\* an admin without a record got the chart while channels are required
C8_AdminWithoutRecord ==
    /\ reply.handler = "show_chart" /\ reply.kind = "chart"
    /\ reply.user \in ADMIN_IDS
    /\ ~users[reply.user].exists
    /\ RequiredUsernames # {}

C10_DenialListsMissing ==
    (reply.handler \in Gated /\ reply.kind = "join_channels" /\ reply.errors = {}) =>
        {reply.listed[i] : i \in 1..Len(reply.listed)}
            = RequiredUsernames \ users[reply.user].joined_channels

\* required @a and @b, joined @a: the message lists both
C10_ListsJoinedChannel ==
    /\ reply.handler = "gold_command" /\ reply.kind = "join_channels"
    /\ reply.errors = {}
    /\ RequiredUsernames = {"@a", "@b"}
    /\ users[reply.user].joined_channels = {"@a"}
    /\ {reply.listed[i] : i \in 1..Len(reply.listed)} = {"@a", "@b"}

C12_NoRecordNotAuthorized ==
    (/\ reply.handler \in Gated
     /\ reply.user \notin ADMIN_IDS
     /\ ~users[reply.user].exists) =>
        reply.kind \in {"join_channels", "vip_only"}

\* a user without a record got a payload while no channel is required
C12_NoRecordNoChannels ==
    /\ reply.handler \in Commands /\ reply.kind = "payload"
    /\ reply.user \notin ADMIN_IDS
    /\ ~users[reply.user].exists
    /\ RequiredUsernames = {}
    /\ reply.errors = {}

\* a step of a handler behind require_subscription for a user who is not an
\* admin: the step evaluates the gate
GateStep == reply'.handler \in Gated /\ reply'.user \notin ADMIN_IDS

\* the check of the step passes on a list of channels that is not empty
PassesOnChannels(u) ==
    /\ reply'.errors = {}
    /\ RequiredUsernames # {}
    /\ users[u].exists
    /\ RequiredUsernames \subseteq users[u].joined_channels

\* C13: a gate evaluation whose check passes on a non-empty list of
\* required channels commits has_joined_required_channels = true if the
\* flag is not set, and commits nothing if it is; every other evaluation
\* commits nothing.  An evaluation changes no other column of any row, nor
\* the channels table, nor a cache, and the flag once set stays set.
C13_WriteOnce ==
    [][GateStep =>
        LET u == reply'.user
        IN  /\ reply'.commits =
                  IF PassesOnChannels(u) /\ ~users[u].has_joined_required_channels
                  THEN {"has_joined_required_channels"} ELSE {}
            /\ PassesOnChannels(u) => users'[u].has_joined_required_channels
            /\ users[u].has_joined_required_channels => users'[u].has_joined_required_channels
            /\ \A v \in UserIds :
                  users'[v] = [users[v] EXCEPT !.has_joined_required_channels =
                                                   users'[v].has_joined_required_channels]
            /\ \A v \in UserIds \ {u} : users'[v] = users[v]
            /\ UNCHANGED <<channels, cache, news_cache, legacy_cache>>]_vars

\* C13 as stated: a gate evaluation at which every requirement is met, also
\* when no channel is required, leaves has_joined_required_channels true.
C13_WriteOnce_AllSatisfied ==
    [][(/\ GateStep
        /\ reply'.errors = {}
        /\ users[reply'.user].exists
        /\ Subscribed(reply'.user)) =>
            users'[reply'.user].has_joined_required_channels]_vars

\* the flag of a user is set, and the last gate evaluation, which passed on
\* two required channels, committed nothing
C13_SecondCheckNoWrite ==
    /\ reply.handler = "gold_command" /\ reply.kind = "payload"
    /\ reply.user \notin ADMIN_IDS
    /\ reply.errors = {}
    /\ Cardinality(RequiredUsernames) = 2
    /\ users[reply.user].has_joined_required_channels
    /\ reply.commits = {}

(***************************************************************************)
(* Properties of the scheduler.                                            *)
(***************************************************************************)
\* the call slots in which an execution of the followed job is in progress
InFlight == {c \in Calls : tpc[c] # "idle"}

\* an execution starts in slot c in this step
Starts(c) == tpc[c] = "idle" /\ tpc'[c] # "idle"

\* stop() was the last call of the two and it returned
Stopped == called.op = "stop" /\ called'.op = "stop"

\* C14: at most one execution of a job is in progress at any time: a run
\* that is due while the execution before it is in progress is skipped.
C14_NoOverlap ==
    /\ Cardinality(InFlight) <= 1
    /\ \A j \in JobIds : instances[j] <= 1

\* a run was skipped while the execution before it is still in progress
C14_RunSkipped == missed > 0 /\ InFlight # {}

\* C15: every execution of update_prices and update_news goes on to the
\* requests of its read: none returns from the cache of an earlier run.
C15_UnconditionalPush ==
    [][\A c \in Calls : Starts(c) => tpc'[c] = "gathering"]_vars

\* the second run of price_update found the aggregate of the first in the
\* cache
C15_RunServedFromCache ==
    /\ svc = "price"
    /\ stats.price_updates = 2
    /\ good.count = 1

\* C16: a read of prices by a handler, made while the cache of the
\* scheduler holds a live aggregate, returns that aggregate and sends no
\* request.
C16_SameCache ==
    [][(consumer'.n # consumer.n /\ CacheContains(cache, "all_prices", now)) =>
          /\ consumer'.ret = cache["all_prices"].value
          /\ consumer'.reqs = {}]_vars

\* a handler read prices and sent requests while the cache of the scheduler
\* holds a live aggregate
C16_HandlerFetchesAgain ==
    /\ consumer.n > 0 /\ consumer.at = now
    /\ consumer.reqs # {}
    /\ CacheContains(cache, "all_prices", now)

\* C17: the counter of a job is the number of its executions that got data
\* from an adapter, and the time next to it is the time of the last of them.
C17_CountsSuccesses ==
    /\ (IF svc = "price" THEN stats.price_updates ELSE stats.news_updates) = good.count
    /\ (IF svc = "price" THEN stats.last_price_update ELSE stats.last_news_update)
          = good.last

\* an execution none of whose requests was answered with data was counted
C17_FailedRunCounted ==
    /\ (IF svc = "price" THEN stats.price_updates ELSE stats.news_updates) = 1
    /\ good.count = 0

\* the number of jobs with this id in the job store
JobCount(id) == Cardinality({i \in 1..Len(jobs) : jobs[i] = id})

\* C18: a call of start(), the second on a started scheduler included,
\* returns without an error and leaves one price_update and one news_update
\* in the job store.
C18_StartIdempotent ==
    called.op = "start" =>
        /\ called.outcome = "ok"
        /\ JobCount("price_update") = 1
        /\ JobCount("news_update") = 1

\* the second start() raised
C18_SecondStartRaises ==
    /\ called.op = "start" /\ called.n = 2
    /\ called.outcome = "ConflictingIdError"
    /\ running

\* C19: once stop() has returned no execution of a job starts and no run is
\* due; stop() returns without an error, and on a scheduler that is not
\* running it changes nothing.
C19_StopEndsRuns ==
    [][/\ Stopped =>
            /\ \A c \in Calls : ~Starts(c)
            /\ UNCHANGED <<missed, next_run, jobs, sched_state>>
       /\ (called'.n # called.n /\ called'.op = "stop") =>
            /\ called'.outcome = "ok"
            /\ ~running'
            /\ ~running => UNCHANGED <<serviceVars, sched_state, jobs, instances,
                                       next_run, missed, stats, good, handler_cache,
                                       consumer>>]_vars

\* the scheduler was stopped and the time of the run that was next has
\* passed without an execution
C19_NoRunAfterStop ==
    /\ called.op = "stop"
    /\ sched_state = "shutdown"
    /\ now > next_run
    /\ InFlight = {}

\* C20: once stop() has returned nothing is written to a cache of the
\* scheduler: the answer to a request of an execution that was in progress
\* is dropped.
C20_NoWriteAfterStop ==
    [][Stopped => written' = written]_vars

\* the scheduler is shut down, an execution goes on, and a key of the cache
\* was written at a time the clock reached only after stop()
C20_WrittenAfterStop ==
    /\ sched_state = "shutdown"
    /\ InFlight # {}
    /\ \E k \in DOMAIN written : written[k].at = now /\ now > next_run

\* an execution returns in slot c in this step
Returns(c) == tpc[c] = "done" /\ tpc'[c] = "idle"

\* C21: an execution none of whose requests was answered with data returns
\* as any other: the scheduler and its jobs stay as they are, the executor
\* counts no execution of the job any more, and a run of the job is skipped
\* only while an execution of it is in progress.
C21_FailedTickKeepsLoop ==
    [][/\ \A c \in Calls : (Returns(c) /\ ~GotData(c)) =>
            /\ UNCHANGED <<sched_state, jobs, next_run, missed>>
            /\ instances'[JobOf(svc)] = 0
            /\ running => HasJob(jobs', JobOf(svc)) /\ next_run' >= now'
       /\ missed' # missed => InFlight # {}]_vars

\* an execution whose requests all failed was counted, and the run after it
\* is in progress
C21_RunAfterFailedRun ==
    /\ running
    /\ (IF svc = "price" THEN stats.price_updates ELSE stats.news_updates) = 1
    /\ good.count = 0
    /\ InFlight # {}
    /\ \A c \in InFlight : tpc[c] = "gathering"

(***************************************************************************)
(* Properties of the functions of NewsService.                             *)
(***************************************************************************)
\* the words of the title of an item that count
Words(item) == title_words(lower_title(item.title))

\* the Jaccard similarity of the titles of two items is at least 0.8
AtLeast80(a, b) ==
    /\ Words(a) \cup Words(b) # {}
    /\ 10 * Cardinality(Words(a) \cap Words(b)) >= 8 * Cardinality(Words(a) \cup Words(b))

\* the items of a list
Items(l) == {l[i] : i \in 1..Len(l)}

\* _remove_duplicates was applied once, to the arguments given
Deduplicated == applied.fn = "remove_duplicates" /\ applied.n = 1

\* the two items whose titles differ in the full stop after the last word
Punctuated == {it \in NewsPool : it.title[1] = "bank"}

\* C22: of two items of different feeds whose titles are the same seven
\* words, the second with a full stop after the last, _remove_duplicates
\* keeps exactly one.
C22_KeepsOneOfPunctuated ==
    (Deduplicated /\ Len(applied.arg) = 2 /\ Items(applied.arg) = Punctuated) =>
        Len(applied.value) = 1

\* both items were kept
C22_KeepsBoth ==
    /\ Deduplicated
    /\ Len(applied.arg) = 2
    /\ Items(applied.arg) = Punctuated
    /\ applied.value = applied.arg

\* C23: _remove_duplicates drops an item whose title has a similarity of 0.8
\* or more, exactly 0.8 included, with the title of an item kept before it,
\* and keeps an item whose title is below 0.8 with every one of them.
C23_DropsAtLeast80 ==
    Deduplicated =>
        \A i \in 1..Len(applied.arg) :
            LET kept_before == {applied.arg[j] : j \in 1..(i - 1)} \cap Items(applied.value)
            IN  applied.arg[i] \in Items(applied.value) <=>
                    \A k \in kept_before : ~AtLeast80(applied.arg[i], k)

\* two items were kept whose titles share four words of five
C23_KeptAtExactly80 ==
    /\ Deduplicated
    /\ \E a, b \in Items(applied.value) :
          /\ a # b
          /\ Cardinality(Words(a) \cap Words(b)) = 4
          /\ Cardinality(Words(a) \cup Words(b)) = 5

\* C24: _remove_duplicates applied to a list it returned returns that list,
\* the same items in the same order.
C24_Idempotent ==
    (applied.fn = "remove_duplicates" /\ applied.n >= 2) => applied.value = applied.arg

\* the first application dropped an item and kept two or more, and the
\* function was applied again
C24_AppliedTwice ==
    /\ applied.fn = "remove_duplicates"
    /\ applied.n = 2
    /\ Len(applied.arg) >= 2
    /\ Len(applied.arg) < Len(given.news_items)

\* the items of all feeds, newest first
SortedPool == sort_newest_first(all_news_of(by_feed(applied.arg), 1))

\* C25: get_latest_news(limit) returns the first limit items of the list
\* it gets by sorting the items of all feeds newest first and removing the
\* duplicates of the whole sorted list: at most limit items, newest first.
C25_SortDedupTruncate ==
    applied.fn = "latest_news" =>
        /\ Len(applied.value) <= applied.limit
        /\ \A i, j \in 1..Len(applied.value) :
              i < j => applied.value[i].published >= applied.value[j].published
        /\ applied.value = Truncate(remove_duplicates(SortedPool), applied.limit)

\* the result has limit items, the last of which is not among the first
\* limit items of the sorted list
C25_TruncatedAfterDedup ==
    /\ applied.fn = "latest_news"
    /\ Len(applied.value) = applied.limit
    /\ applied.value[applied.limit] \notin Items(Truncate(SortedPool, applied.limit))

(***************************************************************************)
(* Properties of the payloads.                                             *)
(***************************************************************************)
\* every element of the list carries this field
EachHas(list, field) == \A i \in 1..Len(list) : field \in DOMAIN list[i]

\* C26: what get_gold_prices, get_currency_prices, get_crypto_prices and
\* get_latest_news return carries the time of the fetch that produced it: a
\* price dict its timestamp, every coin and every news item one of its own,
\* and that time is the time the value was stored at, on a hit of the cache
\* too.
C26_FetchTimestamp ==
    \A c \in Calls :
        (tpc[c] = "done" /\ op[c] \in Parts \cup {"news"}) =>
            IF op[c] \in {"gold", "currency"}
            THEN ret[c] # EmptyDict =>
                    /\ "timestamp" \in DOMAIN ret[c]
                    /\ ReadKey(op[c], lim[c]) \in DOMAIN written
                    /\ ret[c].timestamp = written[ReadKey(op[c], lim[c])].at
            ELSE EachHas(ret[c], "timestamp")

\* get_crypto_prices returned coins none of which has a timestamp
C26_CoinsWithoutTimestamp ==
    \E c \in Calls :
        /\ tpc[c] = "done"
        /\ op[c] = "crypto"
        /\ Len(ret[c]) > 0
        /\ \A i \in 1..Len(ret[c]) : "timestamp" \notin DOMAIN ret[c][i]

\* the coins of a response that have every field the adapter reads
WellFormed(coins) == SelectSeq(coins, LAMBDA coin : CoinRequiredFields \subseteq DOMAIN coin)

\* C27: an element of a response that lacks a field does not end the fetch:
\* get_crypto_prices returns the coins of the response that have their
\* fields, and _fetch_feed the items of the entries that have a title.
C27_BadElementSkipped ==
    /\ applied.fn = "get_crypto_prices" =>
          \A i \in 1..Len(WellFormed(applied.arg)) :
              \E j \in 1..Len(applied.value) :
                  applied.value[j].id = WellFormed(applied.arg)[i].id
    /\ applied.fn = "_fetch_feed" =>
          \A i \in 1..Len(applied.arg) :
              HasTitle(applied.arg[i]) =>
                  \E j \in 1..Len(applied.value) :
                      applied.value[j].link = applied.arg[i].link

\* a response with a coin that has every field and a coin that lacks one
\* gave no coin at all
C27_OneBadCoinLosesAll ==
    /\ applied.fn = "get_crypto_prices"
    /\ WellFormed(applied.arg) # << >>
    /\ Len(WellFormed(applied.arg)) < Len(applied.arg)
    /\ applied.value = << >>

\* the document has no such key, or its price is not a number
Unpriced(data, key) ==
    \/ key \notin DOMAIN data
    \/ /\ IsDict(data[key])
       /\ "p" \in DOMAIN data[key]
       /\ ~IsNumeric(data[key].p)

\* every symbol of the mapping that is unpriced in the document is in the
\* payload with the value 0
ZeroWhereUnpriced(mapping, data, payload) ==
    \A k \in DOMAIN mapping :
        Unpriced(data, mapping[k]) => k \in DOMAIN payload /\ payload[k] = 0

\* C28: in what a price read returns from a response of status 200, every
\* symbol whose TGJU key is missing or has a price that is no number is
\* present with the value 0: the gold and coin keys of get_gold_prices, and
\* usd, eur, gbp, aed and try of get_currency_prices.
C28_MissingIsZero ==
    /\ applied.fn = "get_gold_prices" =>
          ZeroWhereUnpriced(gold_mapping, applied.arg, applied.value)
    /\ (applied.fn = "get_currency_prices" /\ applied.value # EmptyDict) =>
          ZeroWhereUnpriced(currency_mapping, applied.arg, applied.value)

\* get_currency_prices returned a payload that has the dollar and lacks a
\* currency whose key the document does not have
C28_CurrencyLeftOut ==
    /\ applied.fn = "get_currency_prices"
    /\ "usd" \in DOMAIN applied.value
    /\ "price_eur" \notin DOMAIN applied.arg
    /\ "eur" \notin DOMAIN applied.value

(***************************************************************************)
(* Properties of the timed reads.                                          *)
(***************************************************************************)
\* the seconds since the requests of call c were sent_at
Elapsed(c) == now - sent_at[c]

\* the read of call c is waiting for its requests
Waiting(c) == tpc[c] \in {"running", "gathering"}

\* what get_all_prices returned has nothing of a component read that
\* ended without data, and what get_latest_news returned has no item of a
\* feed that did
FailedContributeNothing(c) ==
    /\ op[c] = "all" =>
          /\ part[c]["gold"].pc = "failed" => "gold_18k" \notin DOMAIN ret[c]
          /\ part[c]["currency"].pc = "failed" => "usd" \notin DOMAIN ret[c]
          /\ part[c]["crypto"].pc = "failed" =>
                ret[c].crypto_list = << >> /\ "bitcoin" \notin DOMAIN ret[c]
    /\ op[c] = "news" =>
          \A f \in FeedNames :
              feed[c][f].pc = "failed" =>
                  \A i \in 1..Len(ret[c]) : ret[c][i].source # f

Place(table, row) == CHOOSE i \in 1..Len(table) : table[i] = row

\* C30: get_required_channels returns active channels only, newest first,
\* and the REQUIRED_CHANNELS_COUNT newest of them when there are more; a user
\* who has joined the active channels passes check_user_channels whatever
\* inactive channels the table has.
C30_NewestActiveChannels ==
    /\ applied.fn = "get_required_channels" =>
          LET table == applied.arg
              required == applied.value
              active == {i \in 1..Len(table) : table[i].is_active}
          IN  /\ \A i \in 1..Len(required) : required[i].is_active
              /\ Items(required) \subseteq Items(table)
              /\ Len(required) = IF Cardinality(active) < REQUIRED_CHANNELS_COUNT
                                 THEN Cardinality(active) ELSE REQUIRED_CHANNELS_COUNT
              /\ \A i, j \in 1..Len(required) :
                    i < j => Place(table, required[i]) > Place(table, required[j])
              /\ \A i \in active :
                    table[i] \notin Items(required) =>
                        \A j \in 1..Len(required) : Place(table, required[j]) > i
    /\ applied.fn = "check_user_channels" => applied.value

\* the table has an active channel older than the three returned and an
\* inactive channel newer than the oldest of them
C30_SkippedAndTruncated ==
    /\ applied.fn = "get_required_channels"
    /\ Len(applied.value) = REQUIRED_CHANNELS_COUNT
    /\ \E i, k \in 1..Len(applied.arg) :
          /\ applied.arg[i].is_active
          /\ i < Place(applied.arg, applied.value[REQUIRED_CHANNELS_COUNT])
          /\ ~applied.arg[k].is_active
          /\ k > Place(applied.arg, applied.value[REQUIRED_CHANNELS_COUNT])

(***************************************************************************)
(* Properties of the age of what the reads return.                         *)
(***************************************************************************)
\* the clock advances between reads only: a read that takes no time
Idle == \A c \in Calls : tpc[c] = "idle"

NextBetween ==
    \/ \E d \in TickSteps(svc) : Idle /\ Tick(d)
    \/ \E c \in Calls, p \in Parts, l \in CryptoLimits :
          (p = "crypto" \/ l = ALL_CRYPTO_LIMIT) /\ get_part(c, p, l)
    \/ \E c \in Calls, k \in Kinds, d \in TgjuDocs : get_gold_prices_response(c, k, d)
    \/ \E c \in Calls, k \in Kinds, d \in TgjuDocs : get_currency_prices_response(c, k, d)
    \/ \E c \in Calls, k \in Kinds, d \in CoinGeckoDocs : get_crypto_prices_response(c, k, d)
    \/ \E c \in Calls : get_all_prices_check(c)
    \/ \E c \in Calls : all_parts_start(c)
    \/ \E c \in Calls : get_all_prices_combine(c)
    \/ \E c \in Calls : Return(c)

\* PriceService, one read at a time
InitBetween ==
    /\ svc = "price"
    /\ slots = 1
    /\ ServicesStart
    /\ GateStart
    /\ SchedStart
    /\ FuncStart

SpecBetween == InitBetween /\ [][NextBetween]_vars

\* reads with their timeouts that may be in progress together
InitOverlap ==
    /\ svc \in Services
    /\ slots = NumCalls
    /\ ServicesStart
    /\ GateStart
    /\ SchedStart
    /\ FuncStart

SpecOverlap == InitOverlap /\ [][NextTimed]_vars

(***************************************************************************)
(* ban_command and unban_command, behind require_admin.                    *)
(***************************************************************************)
\* a ban that leaves is_active as it is
banned_still_active(user) == [user EXCEPT !.is_banned = TRUE]

\* "Ban the user"
banned(user) == [user EXCEPT !.is_banned = TRUE, !.is_active = FALSE]

\* "Unban the user"
unbanned(user) == [user EXCEPT !.is_banned = FALSE, !.is_active = TRUE]

\* the message of a command about a user names the user
BanReply(handler, caller, kind, user_id) ==
    Reply(handler, caller, kind, <<user_id>>, {"user"})

\* ban_command: args_ok is false when context.args is empty or its first
\* element is not a number
ban_command(caller, user_id, args_ok) ==
    /\ IF caller \notin ADMIN_IDS
       THEN /\ reply' = Reply("ban_command", caller, "admin_only", << >>, {})
            /\ UNCHANGED users
       ELSE IF ~args_ok
       THEN /\ reply' = Reply("ban_command", caller, "usage", << >>, {})
            /\ UNCHANGED users
       ELSE IF ~users[user_id].exists
       THEN /\ reply' = BanReply("ban_command", caller, "not_found", user_id)
            /\ UNCHANGED users
       ELSE IF users[user_id].is_banned
       THEN /\ reply' = BanReply("ban_command", caller, "already_banned", user_id)
            /\ UNCHANGED users
       ELSE /\ reply' = BanReply("ban_command", caller, "banned", user_id)
            /\ users' = [users EXCEPT ![user_id] = banned(@)]
    /\ UNCHANGED channels
    /\ UNCHANGED <<serviceVars, legacyVars, schedVars, funcVars>>

unban_command(caller, user_id, args_ok) ==
    /\ IF caller \notin ADMIN_IDS
       THEN /\ reply' = Reply("unban_command", caller, "admin_only", << >>, {})
            /\ UNCHANGED users
       ELSE IF ~args_ok
       THEN /\ reply' = Reply("unban_command", caller, "usage", << >>, {})
            /\ UNCHANGED users
       ELSE IF ~users[user_id].exists
       THEN /\ reply' = BanReply("unban_command", caller, "not_found", user_id)
            /\ UNCHANGED users
       ELSE IF ~users[user_id].is_banned
       THEN /\ reply' = BanReply("unban_command", caller, "not_banned", user_id)
            /\ UNCHANGED users
       ELSE /\ reply' = BanReply("unban_command", caller, "unbanned", user_id)
            /\ users' = [users EXCEPT ![user_id] = unbanned(@)]
    /\ UNCHANGED channels
    /\ UNCHANGED <<serviceVars, legacyVars, schedVars, funcVars>>

\* no user has a record; start_command creates it
InitBan ==
    /\ svc = "gate"
    /\ slots = 1
    /\ ServicesStart
    /\ GateStart
    /\ SchedStart
    /\ FuncStart

NextBan ==
    \/ \E u \in UserIds, ok \in BOOLEAN : start_command(u, ok)
    \/ \E u \in UserIds, n \in ChannelNames : addchannel_command(u, n)
    \/ \E c, u \in UserIds, ok \in BOOLEAN : ban_command(c, u, ok)
    \/ \E c, u \in UserIds, ok \in BOOLEAN : unban_command(c, u, ok)

SpecBan == InitBan /\ [][NextBan]_vars

(***************************************************************************)
(* callback_handler on the refresh button of the price keyboard, and the   *)
(* reads of the PriceService of callback_handlers.                         *)
(***************************************************************************)
MaxRefresh == 2   \* callbacks of the refresh button in a behaviour

\* get_price_keyboard: callback_data of the refresh button
RefreshData == {"refresh_prices"}

\* data.startswith(prefix), for the callback data of the keyboards
StartsWith(data, prefix) ==
    \/ prefix = "menu_" /\ data \in {"menu_main", "menu_prices", "menu_news"}
    \/ prefix = "price_" /\ data \in {"price_gold", "price_currency", "price_crypto",
                                       "price_all"}
    \/ prefix = "check_membership" /\ data = "check_membership"
    \/ prefix = "refresh_" /\ data \in {"refresh_prices", "refresh_news"}

\* callback_handler, "Route based on callback data": the function awaited
\* is that of the first prefix the data starts with
Routed(data) ==
    IF StartsWith(data, "menu_") THEN "handle_menu_callback"
    ELSE IF StartsWith(data, "price_") THEN "handle_price_callback"
    ELSE IF StartsWith(data, "check_membership") THEN "handle_check_membership"
    ELSE IF StartsWith(data, "refresh_") THEN "handle_refresh_callback"
    ELSE "edit_message_text"

\* the functions of that route which the module defines
DefinedHandlers ==
    {"handle_menu_callback", "handle_price_callback", "handle_check_membership",
     "edit_message_text"}

\* handle_price_callback: the function awaited for the data
price_callback_target(data) ==
    IF data = "price_gold" THEN "show_gold_prices"
    ELSE IF data = "price_currency" THEN "show_currency_prices"
    ELSE IF data = "price_crypto" THEN "show_crypto_prices"
    ELSE IF data = "price_all" THEN "show_all_prices"
    ELSE IF data = "refresh_prices" THEN "refresh_prices"
    ELSE "none"

\* what callback_handler does with the data for the user: "Update user
\* activity" raises NameError for a user with a record (the module does not
\* import datetime); otherwise the route is followed, and a name the
\* module does not define raises NameError
callback_outcome(user_id, data) ==
    IF users[user_id].exists THEN "raised"
    ELSE IF Routed(data) \notin DefinedHandlers THEN "raised"
    ELSE IF Routed(data) = "handle_price_callback"
            /\ price_callback_target(data) = "refresh_prices"
         THEN "refresh_prices"
         ELSE "other"

\* callback_handler for the refresh button; refresh_prices, when it is
\* reached, clears the cache and shows the price menu
refresh_callback(user_id, data) ==
    /\ Idle
    /\ applied.n < MaxRefresh
    /\ LET outcome == callback_outcome(user_id, data)
       IN  /\ cache' = IF outcome = "refresh_prices" THEN EmptyDict ELSE cache
           /\ reply' = Reply("callback_handler", user_id,
                             IF outcome = "refresh_prices" THEN "price_menu" ELSE outcome,
                             << >>, {})
           /\ applied' = [fn |-> "callback_handler", n |-> applied.n + 1, arg |-> data,
                          value |-> outcome, at |-> now]
    /\ UNCHANGED <<svc, slots, now, ticks, news_cache, op, lim, tpc, part, feed, ret, reqs,
                   written>>
    /\ UNCHANGED <<users, channels, given, sent_at>>
    /\ UNCHANGED <<legacyVars, schedVars>>

\* users with and without a record
InitRefresh ==
    /\ svc = "price"
    /\ slots = 1
    /\ ServicesStart
    /\ users \in [UserIds -> {NoUser, UserRecord(FALSE, "None", {})}]
    /\ channels = << >>
    /\ reply = NoReply
    /\ SchedStart
    /\ FuncStart

NextRefresh ==
    \/ \E u \in UserIds, d \in RefreshData : refresh_callback(u, d)
    \/ \E d \in TickSteps(svc) : Idle /\ Tick(d)
    \/ \E c \in Calls, p \in Parts : get_part(c, p, ALL_CRYPTO_LIMIT)
    \/ \E c \in Calls, k \in Kinds, d \in TgjuDocs : get_gold_prices_response(c, k, d)
    \/ \E c \in Calls, k \in Kinds, d \in TgjuDocs : get_currency_prices_response(c, k, d)
    \/ \E c \in Calls, k \in Kinds, d \in CoinGeckoDocs : get_crypto_prices_response(c, k, d)
    \/ \E c \in Calls : Return(c)

SpecRefresh == InitRefresh /\ [][NextRefresh]_vars

\* the reads of PriceService that return a mapping
PriceOps == {"gold", "currency", "all"}

\* the time of the upstream fetch that a returned value of the gold prices,
\* the currency prices or the aggregate carries
FetchedAt(value) == value.timestamp

\* C31: every value of get_gold_prices, get_currency_prices or
\* get_all_prices that a read returns from the cache was fetched from
\* upstream at most PRICE_TTL seconds before the read, the aggregate that
\* get_all_prices built and cached from cached component entries included.
C31_StalenessBound ==
    [][\A c \in Calls :
          (/\ tpc[c] = "idle" /\ tpc'[c] = "done"
           /\ op'[c] \in PriceOps
           /\ "timestamp" \in DOMAIN ret'[c])
          => now' - FetchedAt(ret'[c]) <= PRICE_TTL]_vars

\* get_all_prices returned, from its own cache entry, prices fetched more
\* than PRICE_TTL seconds ago
C31_AggregateOlderThanTTL ==
    /\ tpc[1] = "done" /\ op[1] = "all"
    /\ reqs[1] = {}
    /\ "timestamp" \in DOMAIN ret[1]
    /\ now - FetchedAt(ret[1]) > PRICE_TTL
    /\ CacheContains(cache, "all_prices", now)

\* the keys of the cache whose value carries the time of its fetch
StampedKeys == {"gold_prices", "currency_prices", "all_prices"}

\* the entry of key k in cache c carries the time of its fetch
Stamped(c, k) == k \in DOMAIN c /\ "timestamp" \in DOMAIN c[k].value

\* C32: freshness never regresses: whatever fetches overlap, no write
\* replaces the entry of a key by a result fetched from upstream earlier
\* than the result the entry held.
C32_FreshnessNeverRegresses ==
    [][\A k \in StampedKeys :
          (Stamped(cache, k) /\ Stamped(cache', k))
          => FetchedAt(cache'[k].value) >= FetchedAt(cache[k].value)]_vars

\* two calls of get_all_prices overlapped; the second has stored its
\* aggregate and returned, and the first has then stored an aggregate of
\* prices fetched earlier than those in the component entry
C32_OlderAggregateStored ==
    /\ tpc[1] = "done" /\ op[1] = "all" /\ reqs[1] # {}
    /\ tpc[2] = "idle" /\ sent_at[2] >= 0
    /\ Stamped(cache, "all_prices") /\ Stamped(cache, "currency_prices")
    /\ cache["all_prices"].value = ret[1]
    /\ FetchedAt(cache["all_prices"].value) < FetchedAt(cache["currency_prices"].value)

(***************************************************************************)
(* Properties of the list _remove_duplicates returns.                      *)
(***************************************************************************)
\* the Jaccard similarity of the titles of two items is above 0.8
Above80(a, b) ==
    10 * Cardinality(Words(a) \cap Words(b)) > 8 * Cardinality(Words(a) \cup Words(b))

\* C33: the list _remove_duplicates returns holds items of its argument in
\* the order of the argument; no item of it is above the threshold with an
\* item before it; and every item of the argument that is not in it is above
\* the threshold with an item that is in it and stands earlier in the
\* argument.
C33_GreedySubsequence ==
    applied.fn = "remove_duplicates" =>
        LET arg == applied.arg
            kept == applied.value
        IN  /\ Items(kept) \subseteq Items(arg)
            /\ \A i, j \in 1..Len(kept) :
                  i < j => /\ Place(arg, kept[i]) < Place(arg, kept[j])
                           /\ ~Above80(kept[j], kept[i])
            /\ \A i \in 1..Len(arg) :
                  arg[i] \notin Items(kept) =>
                      \E j \in 1..(i - 1) :
                          arg[j] \in Items(kept) /\ Above80(arg[i], arg[j])

\* of three items the second was dropped, and the two kept have a
\* similarity of exactly 0.8
C33_MiddleDropped ==
    /\ Deduplicated
    /\ Len(applied.arg) = 3
    /\ applied.value = <<applied.arg[1], applied.arg[3]>>
    /\ AtLeast80(applied.arg[1], applied.arg[3])

(***************************************************************************)
(* Properties of has_joined_required_channels.                             *)
(***************************************************************************)
\* the flag of user u is set
Flagged(u) == users[u].exists /\ users[u].has_joined_required_channels

\* C34: no step of a handler, addchannel_command included, clears a
\* has_joined_required_channels that is set; and require_subscription
\* decides without the flag: it denies a user who lacks a required channel
\* though the flag is set, and lets through a user who meets the
\* requirement though the flag is not.
C34_FlagMonotoneAdvisory ==
    [][/\ \A u \in UserIds :
             Flagged(u) => (users'[u].exists /\ users'[u].has_joined_required_channels)
       /\ GateStep =>
             LET u == reply'.user
             IN  /\ (Flagged(u) /\ ~Subscribed(u)) => reply'.kind = "join_channels"
                 /\ (~Flagged(u) /\ Subscribed(u) /\ reply'.errors = {})
                        => reply'.kind # "join_channels"]_vars

\* a user whose flag was set when one channel was required has been denied
\* after a channel was added that the user has not joined
C34_FlaggedAndDenied ==
    /\ reply.handler \in Gated /\ reply.kind = "join_channels"
    /\ reply.user \notin ADMIN_IDS
    /\ Flagged(reply.user)
    /\ Len(channels) = 2
    /\ users[reply.user].joined_channels = {channels[1].username}

(***************************************************************************)
(* Properties of the refresh button.                                       *)
(***************************************************************************)
\* a step of callback_handler on the data of the refresh button
RefreshStep ==
    /\ applied'.fn = "callback_handler"
    /\ applied'.n = applied.n + 1
    /\ applied'.arg = "refresh_prices"

\* C35: a callback with the data of the refresh button reaches
\* refresh_prices and leaves the price cache empty, so that the price read
\* after it finds no entry.
C35_RefreshClearsCache ==
    [][RefreshStep => (applied'.value = "refresh_prices" /\ cache' = EmptyDict)]_vars

\* after the refresh button was pressed, later than the gold prices were
\* stored, a read of the gold prices was answered from the cache
C35_HitAfterRefresh ==
    /\ applied.fn = "callback_handler" /\ applied.arg = "refresh_prices"
    /\ applied.value = "raised"
    /\ tpc[1] = "done" /\ op[1] = "gold" /\ reqs[1] = {}
    /\ "gold_prices" \in DOMAIN written
    /\ written["gold_prices"].at < applied.at
    /\ ret[1] = written["gold_prices"].value

(***************************************************************************)
(* Properties of ban_command and unban_command.                            *)
(***************************************************************************)
\* in the users table t, is_banned is true exactly where is_active is false
BannedIffInactive(t) == \A u \in UserIds : t[u].exists => (t[u].is_banned <=> ~t[u].is_active)

\* C36: whatever ban and unban commands were run on users created by
\* start_command, is_banned is true exactly when is_active is false; a ban
\* of a banned user and an unban of a user who is not banned change no row;
\* a command of a caller who is not in ADMIN_IDS changes no row; and a ban
\* or unban by an admin of a user in the other state changes those two
\* columns of that user, and nothing else.
C36_BanUnban ==
    [][/\ BannedIffInactive(users) /\ BannedIffInactive(users')
       /\ reply'.handler \in {"ban_command", "unban_command"} =>
             LET ban == reply'.handler = "ban_command"
             IN  /\ reply'.user \notin ADMIN_IDS =>
                       (users' = users /\ reply'.kind = "admin_only")
                 /\ \A t \in UserIds :
                       (reply'.listed = <<t>> /\ users[t].exists) =>
                           IF users[t].is_banned = ban
                           THEN users' = users
                           ELSE users' = [users EXCEPT ![t].is_banned = ban,
                                                       ![t].is_active = ~ban]]_vars

\* an admin's ban of a user who was banned before
C36_BannedAgain ==
    /\ reply.handler = "ban_command" /\ reply.kind = "already_banned"
    /\ reply.user \in ADMIN_IDS
    /\ \E t \in UserIds :
          /\ reply.listed = <<t>>
          /\ users[t].exists
          /\ users[t].is_banned /\ ~users[t].is_active

====
